---- MODULE Spec2Model ----
(***************************************************************************)
(* A model of the bruh command-line utility (MaiMarincic/bruh): the scan   *)
(* command (ecosystem detection, the per-tool wrappers and the aggregator),*)
(* the commit command with its pre-commit cleanup loop, and the pr command.*)
(* Every external process the program starts is one step of the model; the *)
(* answer of the process is chosen by the environment.                     *)
(*                                                                         *)
(* Strings the program inspects (file names, paths, process output) are    *)
(* sequences of tokens, so that HasPrefix, HasSuffix and TrimSpace are     *)
(* computed and not assumed.                                               *)
(***************************************************************************)
EXTENDS Integers, Sequences, FiniteSets, TLC

(***************************************************************************)
(* Bounds of the model.                                                    *)
(***************************************************************************)
\* files in the working directory plus flags given on the scan command line
MaxInputs == 4
\* runs of the detector on the same directory
MaxRuns == 2

(***************************************************************************)
(* State.                                                                  *)
(***************************************************************************)
VARIABLES
    pc,          \* where the running command stands
    log,         \* what the command has run so far, in order
    ret,         \* what the command returned: "running", "nil" or the error
    wrapper,     \* tool wrapper run on its own: the tool
    probe,       \*   what the environment answers it
    res,         \*   what the wrapper made of it
    flags,       \* scan: the command line
    tree,        \* scan: the working directory
    sel,         \* scan: the scan categories in effect
    languages,   \* scan: the effective ecosystem list
    li,          \* scan: index of the ecosystem being scanned
    gi,          \* scan: index of the next tool of its group
    grpErr,      \* scan: hasErrors of the running run<Language>Scans
    hasErrors,   \* scan: hasErrors of runMultiLanguageScan
    anyFailed,   \* scan: some wrapper so far reported IssuesFound or ExecutionError
    detectRuns,  \* scan: calls of detectLanguages
    history,     \* detector run on its own: the lists it returned
    cin,         \* commit: the arguments, the flag and the configured list
    attempt,     \* commit: attempt of runPreCommitCleanup
    cleanupPreCommit, \* commit: whether the cleanup loop is to run
    cleanupErr,  \* commit: what runPreCommitCleanup returned, "none" before
    commitMessage,    \* commit: the message handed to git commit
    currentBranch,    \* pr: the branch getCurrentBranch returned
    baseBranch,  \* pr: the base branch of the diff
    prDescription,    \* pr: what generatePRDescription returned
    prURL,       \* pr: what createPR returned
    argv,        \* process: the subcommand word of the command line
    cfg,         \* process: the state of the configuration file
    loadErr,     \* process: what config.Load returned, "none" before
    execErr,     \* process: what rootCmd.Execute returned, "none" before
    exitCode,    \* process: the exit status, -1 while it runs
    stderr,      \* process: what was written to standard error
    script,      \* processes: the external programs of the code path run
    ip,          \* processes: index of the call the program stands at
    running,     \* processes: the calls whose process was started and not reaped
    exited,      \* processes: the running calls whose process has ended
    globalConfig,     \* config: the package variable globalConfig
    cfgFile,     \* config: the configuration file on the search path
    bin,         \* branch: the flags and the environment
    runtime,     \* branch: the BranchRuntime of RunE
    worktreePath \* branch: the path createWorktree returned

toolVars == <<wrapper, probe, res>>
scanVars == <<flags, tree, sel, languages, li, gi, grpErr, hasErrors, anyFailed, detectRuns>>
commitVars == <<cin, attempt, cleanupPreCommit, cleanupErr, commitMessage>>
prVars == <<currentBranch, baseBranch, prDescription, prURL>>
mainVars == <<argv, cfg, loadErr, execErr, exitCode, stderr>>
execVars == <<script, ip, running, exited>>
confVars == <<globalConfig, cfgFile>>
branchVars == <<bin, runtime, worktreePath>>
cmdVars == <<commitVars, prVars, mainVars, execVars, confVars, branchVars>>
vars == <<pc, log, ret, toolVars, scanVars, history, mainVars, execVars, cmdVars>>

(***************************************************************************)
(* strings                                                                 *)
(***************************************************************************)
RECURSIVE Concat(_)
Concat(ss) == IF ss = <<>> THEN <<>> ELSE Head(ss) \o Concat(Tail(ss))

\* strings.HasPrefix
HasPrefix(s, p) == Len(s) >= Len(p) /\ SubSeq(s, 1, Len(p)) = p

\* strings.HasSuffix
HasSuffix(s, p) == Len(s) >= Len(p) /\ SubSeq(s, Len(s) - Len(p) + 1, Len(s)) = p

WhiteSpace == {" ", "\n", "\t"}

\* strings.TrimSpace
RECURSIVE TrimLeft(_), TrimRight(_)
TrimLeft(s) ==
    IF s # <<>> /\ Head(s) \in WhiteSpace THEN TrimLeft(Tail(s)) ELSE s

TrimRight(s) ==
    IF s # <<>> /\ s[Len(s)] \in WhiteSpace
    THEN TrimRight(SubSeq(s, 1, Len(s) - 1)) ELSE s

TrimSpace(s) == TrimRight(TrimLeft(s))

\* strings.Contains
Contains(s, sub) ==
    \E i \in 1..(Len(s) - Len(sub) + 1) : SubSeq(s, i, i + Len(sub) - 1) = sub

\* strings.Split(s, "\n")
RECURSIVE SplitLines(_, _)
SplitLines(s, cur) ==
    IF s = <<>> THEN <<cur>>
    ELSE IF Head(s) = "\n" THEN <<cur>> \o SplitLines(Tail(s), <<>>)
    ELSE SplitLines(Tail(s), Append(cur, Head(s)))

\* the words one after the other with nothing between them
JoinWordsNoSeparator(ws) == ws

\* strings.Join(words, " ")
RECURSIVE JoinWords(_)
JoinWords(ws) ==
    IF ws = <<>> THEN <<>>
    ELSE IF Len(ws) = 1 THEN <<ws[1]>>
    ELSE <<ws[1], " ">> \o JoinWords(Tail(ws))

\* filepath.Base of a path of names and separators
RECURSIVE Base(_)
Base(path) ==
    IF path = <<>> THEN "."
    ELSE IF path[Len(path)] = "/"
         THEN IF Len(path) = 1 THEN "/" ELSE Base(SubSeq(path, 1, Len(path) - 1))
    ELSE path[Len(path)]

\* filepath.Join of the names of a path below the walk's root "."
RECURSIVE JoinPath(_)
JoinPath(p) ==
    IF p = <<>> THEN <<".">>
    ELSE IF Len(p) = 1 THEN p[1]
    ELSE p[1] \o <<"/">> \o JoinPath(Tail(p))

(***************************************************************************)
(* The working directory: a set of files, each the sequence of the names   *)
(* on its path below ".".  A directory exists when a file lies below it.   *)
(***************************************************************************)
GoMod == <<"go", ".", "mod">>
PackageJson == <<"package", ".", "json">>
RequirementsTxt == <<"requirements", ".", "txt">>
PyprojectToml == <<"pyproject", ".", "toml">>
SetupPy == <<"setup", ".", "py">>
PomXml == <<"pom", ".", "xml">>
BuildGradle == <<"build", ".", "gradle">>
CargoToml == <<"Cargo", ".", "toml">>

\* names of the model's directory entries, in the byte order os.ReadDir sorts by
NameOrder ==
    << <<".", "cache">>, CargoToml, <<"app", ".", "ts">>, BuildGradle,
       <<"dep", ".", "js">>, <<"gen", ".", "rs">>, GoMod, <<"main", ".", "go">>,
       <<"node_modules">>, PackageJson, PomXml, PyprojectToml, RequirementsTxt,
       SetupPy, <<"src">>, <<"util", ".", "py">> >>

NameRank(n) == CHOOSE i \in DOMAIN NameOrder : NameOrder[i] = n

\* the files a modelled directory may hold
FileUniverse ==
    { <<GoMod>>, <<PackageJson>>, <<RequirementsTxt>>, <<PomXml>>, <<CargoToml>>,
      << <<"main", ".", "go">> >>,
      << <<"src">>, <<"app", ".", "ts">> >>,
      << <<"src">>, <<"util", ".", "py">> >>,
      << <<"node_modules">>, <<"dep", ".", "js">> >>,
      << <<".", "cache">>, <<"gen", ".", "rs">> >> }

IsPrefixPath(d, p) == Len(p) > Len(d) /\ SubSeq(p, 1, Len(d)) = d

IsDir(t, p) == \E f \in t : IsPrefixPath(p, f)

Children(t, d) == { f[Len(d) + 1] : f \in { g \in t : IsPrefixPath(d, g) } }

RECURSIVE SortNames(_)
SortNames(S) ==
    IF S = {} THEN <<>>
    ELSE LET m == CHOOSE n \in S : \A o \in S : NameRank(n) <= NameRank(o)
         IN  <<m>> \o SortNames(S \ {m})

\* os.FileInfo.Name() of a visited path: the last name, and "." for the root
InfoName(p) == IF p = <<>> THEN <<".">> ELSE p[Len(p)]

(***************************************************************************)
(* Ecosystem detection (scan.go).                                          *)
(***************************************************************************)
\* a callback that enters every directory
WalkFnNoSkip(t, p, extensions) ==
    IF p = <<>> \/ IsDir(t, p) THEN "nil"
    ELSE IF \E ext \in extensions : HasSuffix(JoinPath(p), ext)
         THEN "SkipAll"
         ELSE "nil"

\* the callback hasFilesWithExtension hands to filepath.Walk
WalkFn(t, p, extensions) ==
    IF p = <<>> \/ IsDir(t, p)
    THEN IF \/ HasPrefix(InfoName(p), <<".">>)
            \/ InfoName(p) = <<"node_modules">>
            \/ InfoName(p) = <<"vendor">>
            \/ InfoName(p) = <<"target">>
         THEN "SkipDir"
         ELSE "nil"
    ELSE IF \E ext \in extensions : HasSuffix(JoinPath(p), ext)
         THEN "SkipAll"
         ELSE "nil"

\* filepath.Walk from path p: the paths the callback saw, in order, whether a
\* file matched, and whether the walk was stopped (SkipAll)
RECURSIVE Walk(_, _, _), WalkList(_, _, _, _, _)
Walk(t, p, extensions) ==
    LET r == WalkFn(t, p, extensions)
        here == [visited |-> <<p>>, found |-> r = "SkipAll", stop |-> r = "SkipAll"]
    IN  IF (p = <<>> \/ IsDir(t, p)) /\ r = "nil"
        THEN WalkList(t, p, SortNames(Children(t, p)), extensions, here)
        ELSE here

WalkList(t, p, names, extensions, acc) ==
    IF names = <<>> \/ acc.stop THEN acc
    ELSE LET r == Walk(t, Append(p, Head(names)), extensions)
         IN  WalkList(t, p, Tail(names), extensions,
                      [visited |-> acc.visited \o r.visited,
                       found |-> r.found, stop |-> r.stop])

hasFilesWithExtension(t, extensions) == Walk(t, <<>>, extensions).found

\* os.Stat of a name in the working directory does not fail with "not exist"
fileExists(t, filename) == <<filename>> \in t \/ IsDir(t, <<filename>>)

ExtGo == {<<".", "go">>}
ExtJs == {<<".", "js">>, <<".", "ts">>, <<".", "jsx">>, <<".", "tsx">>}
ExtTs == {<<".", "ts">>, <<".", "tsx">>}
ExtPy == {<<".", "py">>}
ExtJava == {<<".", "java">>}
ExtRs == {<<".", "rs">>}

\* the body of detectLanguages, appending to the slice it starts from
DetectFrom(start, t) ==
    start
    \o (IF fileExists(t, GoMod) \/ hasFilesWithExtension(t, ExtGo)
        THEN <<"go">> ELSE <<>>)
    \o (IF fileExists(t, PackageJson) \/ hasFilesWithExtension(t, ExtJs)
        THEN IF hasFilesWithExtension(t, ExtTs)
             THEN <<"typescript">> ELSE <<"javascript">>
        ELSE <<>>)
    \o (IF \/ fileExists(t, RequirementsTxt) \/ fileExists(t, PyprojectToml)
           \/ fileExists(t, SetupPy) \/ hasFilesWithExtension(t, ExtPy)
        THEN <<"python">> ELSE <<>>)
    \o (IF \/ fileExists(t, PomXml) \/ fileExists(t, BuildGradle)
           \/ hasFilesWithExtension(t, ExtJava)
        THEN <<"java">> ELSE <<>>)
    \o (IF fileExists(t, CargoToml) \/ hasFilesWithExtension(t, ExtRs)
        THEN <<"rust">> ELSE <<>>)

\* a detector that keeps its slice from one call to the next
detectLanguagesShared(t) ==
    DetectFrom(IF history = <<>> THEN <<>> ELSE history[Len(history)], t)

\* a detector that returns its list sorted by name
RECURSIVE SortLangs(_)
SortLangs(S) ==
    IF S = {} THEN <<>>
    ELSE LET order == <<"go", "java", "javascript", "python", "rust", "typescript">>
             rank(l) == CHOOSE i \in DOMAIN order : order[i] = l
             m == CHOOSE l \in S : \A o \in S : rank(l) <= rank(o)
         IN  <<m>> \o SortLangs(S \ {m})

detectLanguagesSorted(t) ==
    LET found == DetectFrom(<<>>, t)
    IN  SortLangs({ found[i] : i \in DOMAIN found })

\* a detector that runs its checks twice over the same slice
detectLanguagesTwice(t) == DetectFrom(DetectFrom(<<>>, t), t)

\* languages := []string{} and the checks
detectLanguages(t) == DetectFrom(<<>>, t)

(***************************************************************************)
(* The tool wrappers (scan.go).  A probe is what the environment answers   *)
(* to one wrapper: found, whether exec.LookPath resolves the name the      *)
(* wrapper checks; started, whether the executable it runs could be        *)
(* started (when not, err is no *exec.ExitError); code, ExitCode() of the  *)
(* process (-1: killed by a signal); out, whether it wrote any output.     *)
(***************************************************************************)
Tools ==
    <<"gitleaks", "go vet", "staticcheck", "gosec", "govulncheck", "eslint",
      "npm audit", "bandit", "pylint", "safety", "spotbugs", "pmd",
      "cargo clippy", "cargo audit">>

ToolSet == { Tools[i] : i \in DOMAIN Tools }

ExitCodes == {-1, 0, 1, 2, 3, 4, 32, 33, 64, 101, 255}

\* the name the wrapper hands to exec.LookPath; "" when it checks none
LookPathName(tool) ==
    CASE tool = "go vet" -> ""
      [] tool = "npm audit" -> "npm"
      [] tool = "cargo clippy" -> "cargo"
      [] tool = "cargo audit" -> "cargo-audit"
      [] OTHER -> tool

\* the executable the wrapper hands to exec.Command
RunName(tool) ==
    CASE tool = "go vet" -> "go"
      [] tool = "npm audit" -> "npm"
      [] tool = "cargo clippy" -> "cargo"
      [] tool = "cargo audit" -> "cargo"
      [] OTHER -> tool

NoRun == [found |-> FALSE, started |-> FALSE, code |-> 0, out |-> FALSE]

Probes(tool) ==
    { pr \in [found : BOOLEAN, started : BOOLEAN, code : ExitCodes, out : BOOLEAN] :
        /\ LookPathName(tool) = "" => pr.found
        /\ ~pr.found => pr = NoRun
        /\ ~pr.started => pr.code = 0 /\ ~pr.out
        /\ (pr.found /\ LookPathName(tool) = RunName(tool)) => pr.started }

\* err != nil after cmd.CombinedOutput()
RunErr(pr) == ~pr.started \/ pr.code # 0

\* the four endings of a wrapper
Unavailable == [class |-> "Unavailable", err |-> FALSE, shown |-> FALSE]
IssuesFound == [class |-> "IssuesFound", err |-> TRUE, shown |-> TRUE]
ExecutionError == [class |-> "ExecutionError", err |-> TRUE, shown |-> FALSE]
Clean(shown) == [class |-> "Clean", err |-> FALSE, shown |-> shown]

\* the pattern the wrappers share: look the tool up, run it, compare the exit
\* code with the code the wrapper takes for "issues found"
runCheckedScan(tool, issues, pr, verbose) ==
    IF ~pr.found THEN Unavailable
    ELSE IF RunErr(pr)
         THEN IF pr.started /\ pr.code \in issues THEN IssuesFound
              ELSE ExecutionError
         ELSE Clean(verbose)

runGitleaksScan(pr, verbose) == runCheckedScan("gitleaks", {1}, pr, verbose)

runGosecScan(pr, verbose) == runCheckedScan("gosec", {1}, pr, verbose)

runStaticcheckScan(pr, verbose) ==
    IF ~pr.found THEN Unavailable
    ELSE IF RunErr(pr)
         THEN IF pr.started /\ pr.code = 1 THEN IssuesFound ELSE ExecutionError
         ELSE IF pr.out THEN IssuesFound
              ELSE Clean(FALSE)

runGoVetScan(pr, verbose) ==
    IF RunErr(pr) THEN IssuesFound ELSE Clean(verbose /\ pr.out)

runGovulncheckScan(pr, verbose) == runCheckedScan("govulncheck", {3}, pr, verbose)

runESLintScan(pr, verbose) ==
    LET r == runCheckedScan("eslint", {1}, pr, verbose)
    IN  IF r.class = "Clean" THEN Clean(verbose /\ pr.out) ELSE r

runNpmAuditScan(pr, verbose) == runCheckedScan("npm audit", {1}, pr, verbose)

runBanditScan(pr, verbose) == runCheckedScan("bandit", {1}, pr, verbose)

runPylintScan(pr, verbose) ==
    runCheckedScan("pylint", { c \in ExitCodes : c <= 32 }, pr, verbose)

runSafetyScan(pr, verbose) == runCheckedScan("safety", {64}, pr, verbose)

runSpotBugsScan(pr, verbose) == runCheckedScan("spotbugs", {1}, pr, verbose)

runPMDScan(pr, verbose) == runCheckedScan("pmd", {4}, pr, verbose)

runCargoClippyScan(pr, verbose) == runCheckedScan("cargo clippy", {101}, pr, verbose)

runCargoAuditScan(pr, verbose) == runCheckedScan("cargo audit", {1}, pr, verbose)

\* the wrapper of a tool
RunWrapper(tool, pr, verbose) ==
    CASE tool = "gitleaks" -> runGitleaksScan(pr, verbose)
      [] tool = "go vet" -> runGoVetScan(pr, verbose)
      [] tool = "staticcheck" -> runStaticcheckScan(pr, verbose)
      [] tool = "gosec" -> runGosecScan(pr, verbose)
      [] tool = "govulncheck" -> runGovulncheckScan(pr, verbose)
      [] tool = "eslint" -> runESLintScan(pr, verbose)
      [] tool = "npm audit" -> runNpmAuditScan(pr, verbose)
      [] tool = "bandit" -> runBanditScan(pr, verbose)
      [] tool = "pylint" -> runPylintScan(pr, verbose)
      [] tool = "safety" -> runSafetyScan(pr, verbose)
      [] tool = "spotbugs" -> runSpotBugsScan(pr, verbose)
      [] tool = "pmd" -> runPMDScan(pr, verbose)
      [] tool = "cargo clippy" -> runCargoClippyScan(pr, verbose)
      [] tool = "cargo audit" -> runCargoAuditScan(pr, verbose)

NoFlags ==
    [all |-> FALSE, verbose |-> FALSE, language |-> "",
     secrets |-> "unset", security |-> "unset", static |-> "unset", vulns |-> "unset"]

NoSel == [secrets |-> FALSE, security |-> FALSE, static |-> FALSE, vulns |-> FALSE]

NoCommit == [args |-> <<>>, cleanupFlag |-> "unset", cfgList |-> {}]

CommitIdle ==
    /\ cin = NoCommit /\ attempt = 0 /\ cleanupPreCommit = FALSE
    /\ cleanupErr = "none" /\ commitMessage = <<>>

PrIdle ==
    /\ currentBranch = <<>> /\ baseBranch = <<>>
    /\ prDescription = <<>> /\ prURL = <<>>

MainIdle ==
    /\ argv = "" /\ cfg = "absent" /\ loadErr = "none" /\ execErr = "none"
    /\ exitCode = -1 /\ stderr = <<>>

ExecIdle == script = <<>> /\ ip = 0 /\ running = {} /\ exited = {}

\* globalConfig == nil
NoConfig == [set |-> FALSE]

NoFile == [kind |-> "absent", usingTmux |-> "unset", cleanup |-> <<>>]

ConfIdle == globalConfig = NoConfig /\ cfgFile = NoFile

NoBranch == [tmuxFlag |-> "unset", TMUX |-> "", fromBranch |-> <<>>, editor |-> ""]

NoRuntime == [UsingTmux |-> FALSE, FromBranch |-> <<>>, BranchName |-> <<>>, Editor |-> ""]

BranchIdle == bin = NoBranch /\ runtime = NoRuntime /\ worktreePath = <<>>

ToolIdle == wrapper = "" /\ probe = NoRun /\ res = Unavailable

ScanIdle ==
    /\ flags = NoFlags /\ tree = {} /\ sel = NoSel /\ languages = <<>>
    /\ li = 0 /\ gi = 0 /\ grpErr = FALSE /\ hasErrors = FALSE
    /\ anyFailed = FALSE /\ detectRuns = 0

(***************************************************************************)
(* One tool wrapper, run on its own with every answer of the environment.  *)
(***************************************************************************)
InitTool ==
    /\ pc = "wrapper" /\ log = <<>> /\ ret = "running"
    /\ wrapper \in ToolSet
    /\ probe \in Probes(wrapper)
    /\ res = Unavailable
    /\ ScanIdle /\ flags \in {NoFlags, [NoFlags EXCEPT !.verbose = TRUE]}
    /\ history = <<>>
    /\ CommitIdle /\ PrIdle /\ MainIdle /\ ExecIdle /\ ConfIdle /\ BranchIdle

ToolStep ==
    /\ pc = "wrapper"
    /\ res' = RunWrapper(wrapper, probe, flags.verbose)
    /\ log' = Append(log, wrapper)
    /\ ret' = IF res'.err THEN "error" ELSE "nil"
    /\ pc' = "done"
    /\ UNCHANGED <<wrapper, probe, scanVars, history, cmdVars>>

NextTool == ToolStep

SpecTool == InitTool /\ [][NextTool]_vars

(***************************************************************************)
(* The scan command (scan.go): scanCmd.RunE, runMultiLanguageScan and the  *)
(* run<Language>Scans groups.                                              *)
(***************************************************************************)
Categories == {"secrets", "security", "static", "vulns"}

ForceValues == {"go", "js", "python", "java", "rust"}

\* flags given on the command line
NumGiven(f) ==
    Cardinality({ c \in Categories : f[c] # "unset" })
    + (IF f.all THEN 1 ELSE 0) + (IF f.verbose THEN 1 ELSE 0)
    + (IF f.language # "" THEN 1 ELSE 0)

AllFlagSets ==
    [all : BOOLEAN, verbose : BOOLEAN, language : {""} \cup ForceValues,
     secrets : {"unset", "true", "false"}, security : {"unset", "true", "false"},
     static : {"unset", "true", "false"}, vulns : {"unset", "true", "false"}]

\* the command lines and the directories of the model
FlagSets == { f \in AllFlagSets : NumGiven(f) <= MaxInputs }

Trees == { t \in SUBSET FileUniverse : Cardinality(t) <= MaxInputs }

\* GetBool of a category flag: its default is true (init of scanCmd)
GetBool(v) == v # "false"

\* the categories scanCmd.RunE hands to runMultiLanguageScan
Selected(f) ==
    IF f.all
    THEN [secrets |-> TRUE, security |-> TRUE, static |-> TRUE, vulns |-> TRUE]
    ELSE [secrets |-> GetBool(f.secrets), security |-> GetBool(f.security),
          static |-> GetBool(f.static), vulns |-> GetBool(f.vulns)]

\* a resolver that detects first and overrides afterwards
ResolveLanguagesDetectFirst(forceLanguage, t) ==
    [langs |-> IF forceLanguage # "" THEN <<forceLanguage>> ELSE detectLanguages(t),
     calls |-> 1]

\* the effective ecosystem list, and the calls of detectLanguages it cost
ResolveLanguages(forceLanguage, t) ==
    IF forceLanguage # ""
    THEN [langs |-> <<forceLanguage>>, calls |-> 0]
    ELSE [langs |-> detectLanguages(t), calls |-> 1]

runGoScans(s) ==
    (IF s.static THEN <<"go vet", "staticcheck">> ELSE <<>>)
    \o (IF s.security THEN <<"gosec">> ELSE <<>>)
    \o (IF s.vulns THEN <<"govulncheck">> ELSE <<>>)

runJavaScriptScans(s) ==
    (IF s.static THEN <<"eslint">> ELSE <<>>)
    \o (IF s.vulns THEN <<"npm audit">> ELSE <<>>)

runPythonScans(s) ==
    (IF s.security THEN <<"bandit">> ELSE <<>>)
    \o (IF s.static THEN <<"pylint">> ELSE <<>>)
    \o (IF s.vulns THEN <<"safety">> ELSE <<>>)

runJavaScans(s) == IF s.static THEN <<"spotbugs", "pmd">> ELSE <<>>

runRustScans(s) ==
    (IF s.static THEN <<"cargo clippy">> ELSE <<>>)
    \o (IF s.vulns THEN <<"cargo audit">> ELSE <<>>)

\* the switch of runMultiLanguageScan: the wrappers run for one ecosystem
GroupOf(lang, s) ==
    CASE lang = "go" -> runGoScans(s)
      [] lang \in {"javascript", "typescript"} -> runJavaScriptScans(s)
      [] lang = "python" -> runPythonScans(s)
      [] lang = "java" -> runJavaScans(s)
      [] lang = "rust" -> runRustScans(s)
      [] OTHER -> <<>>

\* a group that returns at the first wrapper that failed
AfterToolStopOnError(i, err, n) == IF err THEN n + 1 ELSE i + 1

\* a group goes on to its next wrapper whatever the last one returned
AfterTool(i, err, n) == i + 1

\* a flag that keeps only the last result
AggregateOverwrite(flag, err) == err

\* hasErrors after a wrapper or a group returned err
Aggregate(flag, err) == flag \/ err

\* the error runMultiLanguageScan returns
ScanResult(flag) == IF flag THEN "one or more scans detected issues" ELSE "nil"

InitScan ==
    /\ pc = "scan" /\ log = <<>> /\ ret = "running"
    /\ ToolIdle
    /\ flags \in FlagSets
    /\ tree \in Trees
    /\ NumGiven(flags) + Cardinality(tree) <= MaxInputs
    /\ sel = NoSel /\ languages = <<>> /\ li = 0 /\ gi = 0
    /\ grpErr = FALSE /\ hasErrors = FALSE /\ anyFailed = FALSE /\ detectRuns = 0
    /\ history = <<>>
    /\ CommitIdle /\ PrIdle /\ MainIdle /\ ExecIdle /\ ConfIdle /\ BranchIdle

\* RunE read the flags and no category is selected
ScanNothingSelected ==
    /\ pc = "scan"
    /\ sel' = Selected(flags)
    /\ ~sel'.secrets /\ ~sel'.security /\ ~sel'.static /\ ~sel'.vulns
    /\ ret' = "nil" /\ pc' = "done"
    /\ UNCHANGED <<log, toolVars, flags, tree, languages, li, gi, grpErr,
                   hasErrors, anyFailed, detectRuns, history, cmdVars>>

\* RunE read the flags; runMultiLanguageScan resolved the ecosystems
ScanStart ==
    /\ pc = "scan"
    /\ sel' = Selected(flags)
    /\ sel'.secrets \/ sel'.security \/ sel'.static \/ sel'.vulns
    /\ LET r == ResolveLanguages(flags.language, tree)
       IN  /\ languages' = r.langs
           /\ detectRuns' = detectRuns + r.calls
           /\ IF Len(r.langs) = 0
              THEN ret' = "nil" /\ pc' = "done"
              ELSE ret' = ret /\ pc' = "secrets"
    /\ hasErrors' = FALSE
    /\ UNCHANGED <<log, toolVars, flags, tree, li, gi, grpErr, anyFailed, history, cmdVars>>

\* what a wrapper can make of the answers of the environment
AnswerTable ==
    [t \in ToolSet, verbose \in BOOLEAN |->
        { RunWrapper(t, pr, verbose) : pr \in Probes(t) }]

Answers(t, verbose) == AnswerTable[t, verbose]

\* one wrapper is called and the environment answers it
RunTool(t, r) ==
    /\ log' = Append(log, t)
    /\ anyFailed' = (anyFailed \/ r.class \in {"IssuesFound", "ExecutionError"})

ScanSecrets ==
    /\ pc = "secrets" /\ sel.secrets
    /\ \E r \in Answers("gitleaks", flags.verbose) :
         /\ RunTool("gitleaks", r)
         /\ hasErrors' = Aggregate(hasErrors, r.err)
    /\ pc' = "lang" /\ li' = 1 /\ gi' = 1
    /\ UNCHANGED <<ret, toolVars, flags, tree, sel, languages, grpErr,
                   detectRuns, history, cmdVars>>

ScanSkipSecrets ==
    /\ pc = "secrets" /\ ~sel.secrets
    /\ pc' = "lang" /\ li' = 1 /\ gi' = 1
    /\ UNCHANGED <<log, ret, toolVars, flags, tree, sel, languages, grpErr,
                   hasErrors, anyFailed, detectRuns, history, cmdVars>>

ScanTool ==
    /\ pc = "lang" /\ li <= Len(languages)
    /\ LET group == GroupOf(languages[li], sel)
       IN  /\ gi <= Len(group)
           /\ \E r \in Answers(group[gi], flags.verbose) :
                /\ RunTool(group[gi], r)
                /\ grpErr' = Aggregate(grpErr, r.err)
                /\ gi' = AfterTool(gi, r.err, Len(group))
    /\ UNCHANGED <<pc, ret, toolVars, flags, tree, sel, languages, li,
                   hasErrors, detectRuns, history, cmdVars>>

\* run<Language>Scans returns; the loop of runMultiLanguageScan goes on
ScanGroupEnd ==
    /\ pc = "lang" /\ li <= Len(languages)
    /\ gi > Len(GroupOf(languages[li], sel))
    /\ hasErrors' = Aggregate(hasErrors, grpErr)
    /\ li' = li + 1 /\ gi' = 1 /\ grpErr' = FALSE
    /\ UNCHANGED <<pc, log, ret, toolVars, flags, tree, sel, languages,
                   anyFailed, detectRuns, history, cmdVars>>

ScanFinish ==
    /\ pc = "lang" /\ li > Len(languages)
    /\ ret' = ScanResult(hasErrors)
    /\ pc' = "done"
    /\ UNCHANGED <<log, toolVars, scanVars, history, mainVars, execVars, cmdVars>>

NextScan ==
    \/ ScanNothingSelected
    \/ ScanStart
    \/ ScanSecrets
    \/ ScanSkipSecrets
    \/ ScanTool
    \/ ScanGroupEnd
    \/ ScanFinish

SpecScan == InitScan /\ [][NextScan]_vars

(***************************************************************************)
(* The detector, run again and again on one directory.                     *)
(***************************************************************************)
InitDetect ==
    /\ pc = "detect" /\ log = <<>> /\ ret = "running"
    /\ ToolIdle
    /\ flags = NoFlags /\ tree \in Trees
    /\ sel = NoSel /\ languages = <<>> /\ li = 0 /\ gi = 0
    /\ grpErr = FALSE /\ hasErrors = FALSE /\ anyFailed = FALSE /\ detectRuns = 0
    /\ history = <<>>
    /\ CommitIdle /\ PrIdle /\ MainIdle /\ ExecIdle /\ ConfIdle /\ BranchIdle

DetectRun ==
    /\ pc = "detect" /\ Len(history) < MaxRuns
    /\ history' = Append(history, detectLanguages(tree))
    /\ detectRuns' = detectRuns + 1
    /\ UNCHANGED <<pc, log, ret, toolVars, flags, tree, sel, languages, li, gi,
                   grpErr, hasErrors, anyFailed, cmdVars>>

NextDetect == DetectRun

SpecDetect == InitDetect /\ [][NextDetect]_vars

(***************************************************************************)
(* The commit command (commit.go).  An entry of the log is one external    *)
(* process: its command line, whether it exited zero, and the text the     *)
(* model follows through it (the captured output of pre-commit, the prompt *)
(* payload of the fixer, the message of git commit).                       *)
(***************************************************************************)
maxAttempts == 5

Exec(cmd, ok, arg) == [cmd |-> cmd, ok |-> ok, arg |-> arg]

Words == {"fix", "typo"}

\* words of the message argument of commit
MaxArgs == 2

ArgLists == UNION { [1..n -> Words] : n \in 0..MaxArgs }

RepoRoots == { <<"/", "home", "/", "bruh", "\n">>, <<"/", "srv", "/", "site", "\n">>, <<"/", "\n">> }

PreCommitOutputs == { <<"lint", "\n">>, <<"fmt", "\n">> }

AiOutputs == { <<>>, <<" ", "\n">>, <<"feat", "\n">>, <<"\n", "fix", " ", "typo", " ", "\n">> }

CommitInputs ==
    [args : ArgLists, cleanupFlag : {"unset", "true", "false"},
     cfgList : {{}, {"bruh"}, {"site", "bruh"}}]

\* err != nil of "git diff --cached --exit-code"
hasStagedChangesAlways(ok) == TRUE

hasStagedChanges(ok) == ~ok

\* the last element of the output as git wrote it, line end included
getRepoNameUntrimmed(out) == Base(out)

\* filepath.Base of the trimmed output of "git rev-parse --show-toplevel"
getRepoName(out) == Base(TrimSpace(out))

\* the condition of the for loop of runPreCommitCleanup
LoopContinuesOffByOne(a) == a < maxAttempts

\* a loop that tries once more after the last fix
LoopContinuesOnceMore(a) == a <= maxAttempts + 1

LoopContinues(a) == a <= maxAttempts

\* a generator that takes whatever the AI wrote
generateCommitMessageAcceptsEmpty(ok, out) ==
    IF ok THEN [err |-> FALSE, message |-> TrimSpace(out)]
    ELSE [err |-> TRUE, message |-> <<>>]

\* the end of generateCommitMessage: the AI failed, or its trimmed output is
\* empty, or the trimmed output is the message
generateCommitMessage(ok, out) ==
    IF ok /\ TrimSpace(out) # <<>>
    THEN [err |-> FALSE, message |-> TrimSpace(out)]
    ELSE [err |-> TRUE, message |-> <<>>]

\* a fixer that is not told what pre-commit reported
fixPreCommitIssuesNoOutput(preCommitOutput) == <<>>

\* what of the prompt of fixPreCommitIssues depends on the run: the output
\* pre-commit wrote
fixPreCommitIssues(preCommitOutput) == preCommitOutput

InitCommit ==
    /\ pc = "validate" /\ log = <<>> /\ ret = "running"
    /\ ToolIdle /\ ScanIdle /\ history = <<>> /\ PrIdle /\ MainIdle /\ ExecIdle /\ ConfIdle /\ BranchIdle
    /\ cin \in CommitInputs
    /\ attempt = 0 /\ cleanupPreCommit = FALSE
    /\ cleanupErr = "none" /\ commitMessage = <<>>

\* RunE after the cleanup: the message is the arguments, or is to be generated
ToMessage ==
    IF Len(cin.args) > 0
    THEN commitMessage' = JoinWords(cin.args) /\ pc' = "commit"
    ELSE commitMessage' = commitMessage /\ pc' = "status"

\* the head of the loop of runPreCommitCleanup with attempt a
LoopHead(a) ==
    /\ attempt' = a
    /\ IF LoopContinues(a)
       THEN pc' = "precommit" /\ cleanupErr' = cleanupErr /\ ret' = ret
       ELSE /\ cleanupErr' = "failed to fix pre-commit issues after 5 attempts"
            /\ ret' = "pre-commit cleanup failed"
            /\ pc' = "done"

\* RunE once cleanupPreCommit is decided
AfterDecision(cleanup) ==
    /\ cleanupPreCommit' = cleanup
    /\ IF cleanup
       THEN LoopHead(1) /\ commitMessage' = commitMessage
       ELSE ToMessage /\ UNCHANGED <<attempt, cleanupErr, ret>>

CommitValidate ==
    /\ pc = "validate"
    /\ \E ok \in BOOLEAN :
         /\ log' = Append(log, Exec("git rev-parse --git-dir", ok, <<>>))
         /\ IF ok THEN pc' = "staged" /\ ret' = ret
            ELSE pc' = "done" /\ ret' = "not in a git repository"
    /\ UNCHANGED <<toolVars, scanVars, history, confVars, branchVars, mainVars, execVars, commitVars, prVars>>

CommitNoStagedChanges ==
    /\ pc = "staged"
    /\ \E ok \in BOOLEAN :
         /\ ~hasStagedChanges(ok)
         /\ log' = Append(log, Exec("git diff --cached --exit-code", ok, <<>>))
    /\ pc' = "done" /\ ret' = "no staged changes to commit"
    /\ UNCHANGED <<toolVars, scanVars, history, confVars, branchVars, mainVars, execVars, commitVars, prVars>>

\* there are staged changes and --cleanup-pre-commit was passed
CommitStagedFlag ==
    /\ pc = "staged" /\ cin.cleanupFlag # "unset"
    /\ \E ok \in BOOLEAN :
         /\ hasStagedChanges(ok)
         /\ log' = Append(log, Exec("git diff --cached --exit-code", ok, <<>>))
    /\ AfterDecision(cin.cleanupFlag = "true")
    /\ UNCHANGED <<toolVars, scanVars, history, confVars, branchVars, mainVars, execVars, cin, prVars>>

\* there are staged changes and the flag was not passed: the configured list
CommitStagedConfig ==
    /\ pc = "staged" /\ cin.cleanupFlag = "unset"
    /\ \E ok \in BOOLEAN :
         /\ hasStagedChanges(ok)
         /\ log' = Append(log, Exec("git diff --cached --exit-code", ok, <<>>))
    /\ pc' = "reponame"
    /\ UNCHANGED <<ret, toolVars, scanVars, history, confVars, branchVars, mainVars, execVars, commitVars, prVars>>

CommitRepoName ==
    /\ pc = "reponame"
    /\ \E ok \in BOOLEAN : \E out \in RepoRoots :
         /\ log' = Append(log, Exec("git rev-parse --show-toplevel", ok,
                                     IF ok THEN out ELSE <<>>))
         /\ AfterDecision(ok /\ getRepoName(out) \in cin.cfgList)
    /\ UNCHANGED <<toolVars, scanVars, history, confVars, branchVars, mainVars, execVars, cin, prVars>>

PreCommitPass ==
    /\ pc = "precommit"
    /\ \E out \in PreCommitOutputs :
         log' = Append(log, Exec("pre-commit run --all-files", TRUE, out))
    /\ cleanupErr' = "nil"
    /\ ToMessage
    /\ UNCHANGED <<ret, toolVars, scanVars, history, confVars, branchVars, mainVars, execVars, cin, attempt,
                   cleanupPreCommit, prVars>>

PreCommitFail ==
    /\ pc = "precommit"
    /\ \E out \in PreCommitOutputs :
         log' = Append(log, Exec("pre-commit run --all-files", FALSE, out))
    /\ pc' = "fix"
    /\ UNCHANGED <<ret, toolVars, scanVars, history, confVars, branchVars, mainVars, execVars, commitVars, prVars>>

\* fixPreCommitIssues with the output captured from the run before it
PreCommitFix ==
    /\ pc = "fix"
    /\ \E ok \in BOOLEAN :
         /\ log' = Append(log, Exec("claude fix", ok,
                                     fixPreCommitIssues(log[Len(log)].arg)))
         /\ IF ok
            THEN pc' = "add" /\ UNCHANGED <<ret, cleanupErr>>
            ELSE /\ cleanupErr' = "failed to fix pre-commit issues"
                 /\ ret' = "pre-commit cleanup failed"
                 /\ pc' = "done"
    /\ UNCHANGED <<toolVars, scanVars, history, confVars, branchVars, mainVars, execVars, cin, attempt, cleanupPreCommit,
                   commitMessage, prVars>>

PreCommitAdd ==
    /\ pc = "add"
    /\ \E ok \in BOOLEAN :
         /\ log' = Append(log, Exec("git add .", ok, <<>>))
         /\ IF ok
            THEN LoopHead(attempt + 1)
            ELSE /\ cleanupErr' = "failed to stage fixed files"
                 /\ ret' = "pre-commit cleanup failed"
                 /\ pc' = "done"
                 /\ attempt' = attempt
    /\ UNCHANGED <<toolVars, scanVars, history, confVars, branchVars, mainVars, execVars, cin, cleanupPreCommit,
                   commitMessage, prVars>>

MsgStatus ==
    /\ pc = "status"
    /\ \E ok \in BOOLEAN :
         /\ log' = Append(log, Exec("git status --porcelain", ok, <<>>))
         /\ IF ok THEN pc' = "diff" /\ ret' = ret
            ELSE pc' = "done" /\ ret' = "failed to generate commit message"
    /\ UNCHANGED <<toolVars, scanVars, history, confVars, branchVars, mainVars, execVars, commitVars, prVars>>

MsgDiff ==
    /\ pc = "diff"
    /\ \E ok \in BOOLEAN :
         /\ log' = Append(log, Exec("git diff --cached --name-status", ok, <<>>))
         /\ IF ok THEN pc' = "claude" /\ ret' = ret
            ELSE pc' = "done" /\ ret' = "failed to generate commit message"
    /\ UNCHANGED <<toolVars, scanVars, history, confVars, branchVars, mainVars, execVars, commitVars, prVars>>

\* the AI writes the message; the log keeps what it wrote
MsgClaude ==
    /\ pc = "claude"
    /\ \E ok \in BOOLEAN : \E out \in AiOutputs :
         /\ log' = Append(log, Exec("claude message", ok, out))
         /\ LET r == generateCommitMessage(ok, out)
            IN  IF ~r.err
                THEN commitMessage' = r.message /\ pc' = "commit" /\ ret' = ret
                ELSE /\ commitMessage' = commitMessage
                     /\ pc' = "done" /\ ret' = "failed to generate commit message"
    /\ UNCHANGED <<toolVars, scanVars, history, confVars, branchVars, mainVars, execVars, cin, attempt, cleanupPreCommit,
                   cleanupErr, prVars>>

performCommit ==
    /\ pc = "commit"
    /\ \E ok \in BOOLEAN :
         /\ log' = Append(log, Exec("git commit", ok, commitMessage))
         /\ ret' = IF ok THEN "nil" ELSE "failed to commit"
    /\ pc' = "done"
    /\ UNCHANGED <<toolVars, scanVars, history, confVars, branchVars, mainVars, execVars, commitVars, prVars>>

NextCommit ==
    \/ CommitValidate
    \/ CommitNoStagedChanges
    \/ CommitStagedFlag
    \/ CommitStagedConfig
    \/ CommitRepoName
    \/ PreCommitPass
    \/ PreCommitFail
    \/ PreCommitFix
    \/ PreCommitAdd
    \/ MsgStatus
    \/ MsgDiff
    \/ MsgClaude
    \/ performCommit

SpecCommit == InitCommit /\ [][NextCommit]_vars

\* every external process the command waits for ends, so the command goes on
FairSpecCommit == SpecCommit /\ WF_vars(NextCommit)

(***************************************************************************)
(* The pr command (pr.go).  Branch names and outputs are token sequences.  *)
(***************************************************************************)
BranchOutputs ==
    { <<"main", "\n">>, <<"master", "\n">>, <<"feature", "\n">>,
      <<"main", "-", "fix", "\n">>, <<>> }

BaseOutputs == { <<"main", "\n">>, <<"develop", "\n">> }

PrAiOutputs ==
    { <<>>,
      <<"created", "\n">>,
      <<"\n", "https://", "github.com", "/o/r", "/pull/", "7", " ", "\n", "ok", "\n">>,
      <<"github.com", "\n", "/pull/", "7">>,
      <<"see", "\n", "\t", "github.com", "/o/r", "/pull/", "7", "\n",
        "github.com", "/o/r", "/pull/", "8", "\n">> }

\* currentBranch == "main" || currentBranch == "master"
IsProtectedMainOnly(b) == b = <<"main">>

IsProtected(b) == b = <<"main">> \/ b = <<"master">>

\* fmt.Errorf("cannot create PR from %s branch", currentBranch)
CannotCreate(b) ==
    IF b = <<"main">> THEN "cannot create PR from main branch"
    ELSE "cannot create PR from master branch"

\* the last line that holds both github.com and /pull/, trimmed; else all
RECURSIVE LastURL(_, _)
LastURL(lines, description) ==
    IF lines = <<>> THEN description
    ELSE LET l == lines[Len(lines)]
         IN  IF Contains(l, <<"github.com">>) /\ Contains(l, <<"/pull/">>)
             THEN TrimSpace(l)
             ELSE LastURL(SubSeq(lines, 1, Len(lines) - 1), description)

\* the first line that holds both github.com and /pull/, trimmed; else all
RECURSIVE FirstURL(_, _)
FirstURL(lines, description) ==
    IF lines = <<>> THEN description
    ELSE IF Contains(Head(lines), <<"github.com">>) /\ Contains(Head(lines), <<"/pull/">>)
         THEN TrimSpace(Head(lines))
    ELSE FirstURL(Tail(lines), description)

createPR(description) == FirstURL(SplitLines(description, <<>>), description)

InitPr ==
    /\ pc = "validate" /\ log = <<>> /\ ret = "running"
    /\ ToolIdle /\ ScanIdle /\ history = <<>> /\ CommitIdle /\ PrIdle /\ MainIdle /\ ExecIdle /\ ConfIdle /\ BranchIdle

PrValidate ==
    /\ pc = "validate"
    /\ \E ok \in BOOLEAN :
         /\ log' = Append(log, Exec("git rev-parse --git-dir", ok, <<>>))
         /\ IF ok THEN pc' = "branch" /\ ret' = ret
            ELSE pc' = "done" /\ ret' = "not in a git repository"
    /\ UNCHANGED <<toolVars, scanVars, history, confVars, branchVars, mainVars, execVars, commitVars, prVars>>

PrBranch ==
    /\ pc = "branch"
    /\ \E ok \in BOOLEAN : \E out \in BranchOutputs :
         /\ log' = Append(log, Exec("git branch --show-current", ok, <<>>))
         /\ IF ~ok
            THEN /\ pc' = "done" /\ ret' = "failed to get current branch"
                 /\ currentBranch' = currentBranch
            ELSE /\ currentBranch' = TrimSpace(out)
                 /\ IF IsProtected(TrimSpace(out))
                    THEN pc' = "done" /\ ret' = CannotCreate(TrimSpace(out))
                    ELSE pc' = "ghversion" /\ ret' = ret
    /\ UNCHANGED <<toolVars, scanVars, history, confVars, branchVars, mainVars, execVars, commitVars, baseBranch,
                   prDescription, prURL>>

PrGhVersion ==
    /\ pc = "ghversion"
    /\ \E ok \in BOOLEAN :
         /\ log' = Append(log, Exec("gh --version", ok, <<>>))
         /\ IF ok THEN pc' = "ghauth" /\ ret' = ret
            ELSE pc' = "done" /\ ret' = "GitHub CLI (gh) is not installed or not authenticated"
    /\ UNCHANGED <<toolVars, scanVars, history, confVars, branchVars, mainVars, execVars, commitVars, prVars>>

PrGhAuth ==
    /\ pc = "ghauth"
    /\ \E ok \in BOOLEAN :
         /\ log' = Append(log, Exec("gh auth status", ok, <<>>))
         /\ IF ok THEN pc' = "base" /\ ret' = ret
            ELSE pc' = "done" /\ ret' = "GitHub CLI (gh) is not installed or not authenticated"
    /\ UNCHANGED <<toolVars, scanVars, history, confVars, branchVars, mainVars, execVars, commitVars, prVars>>

PrBase ==
    /\ pc = "base"
    /\ \E ok \in BOOLEAN : \E out \in BaseOutputs :
         /\ log' = Append(log, Exec("gh repo view", ok, <<>>))
         /\ baseBranch' = IF ok THEN TrimSpace(out) ELSE <<"main">>
    /\ pc' = "diff"
    /\ UNCHANGED <<ret, toolVars, scanVars, history, confVars, branchVars, mainVars, execVars, commitVars, currentBranch,
                   prDescription, prURL>>

\* one of the three git queries of generatePRDescription, then the next step
PrQuery(at, cmd, next) ==
    /\ pc = at
    /\ \E ok \in BOOLEAN :
         /\ log' = Append(log, Exec(cmd, ok, baseBranch))
         /\ IF ok THEN pc' = next /\ ret' = ret
            ELSE pc' = "done" /\ ret' = "failed to generate PR description"
    /\ UNCHANGED <<toolVars, scanVars, history, confVars, branchVars, mainVars, execVars, commitVars, prVars>>

PrDiff == PrQuery("diff", "git diff --name-status", "log")

PrLog == PrQuery("log", "git log --oneline", "stat")

PrStat == PrQuery("stat", "git diff --stat", "claude")

\* the AI creates the pull request; its trimmed output is the description
PrClaude ==
    /\ pc = "claude"
    /\ \E ok \in BOOLEAN : \E out \in PrAiOutputs :
         /\ log' = Append(log, Exec("claude pr", ok, baseBranch))
         /\ IF ok
            THEN /\ prDescription' = TrimSpace(out)
                 /\ prURL' = createPR(TrimSpace(out))
                 /\ ret' = "nil"
            ELSE /\ UNCHANGED <<prDescription, prURL>>
                 /\ ret' = "failed to generate PR description"
    /\ pc' = "done"
    /\ UNCHANGED <<toolVars, scanVars, history, confVars, branchVars, mainVars, execVars, commitVars, currentBranch,
                   baseBranch>>

NextPr ==
    \/ PrValidate
    \/ PrBranch
    \/ PrGhVersion
    \/ PrGhAuth
    \/ PrBase
    \/ PrDiff
    \/ PrLog
    \/ PrStat
    \/ PrClaude

SpecPr == InitPr /\ [][NextPr]_vars

(***************************************************************************)
(* The process: Execute, the root command with its PersistentPreRunE, and  *)
(* the commands the init functions register on it.  The handler of the     *)
(* command that is run returns one of the results the command can return.  *)
(***************************************************************************)
\* the subcommands the program defines a cobra.Command for
Surface == {"branch", "commit", "pr", "scan", "addcheat"}

\* rootCmd.AddCommand: branchCmd and prCmd in the root's init, commitCmd in
\* the init of commit; no init adds scanCmd or addcheatCmd
Registered == {"branch", "pr"} \cup {"commit"}

CfgStates == {"absent", "valid", "malformed", "mistyped"}

\* v.ReadInConfig()
ReadInConfig(c) ==
    CASE c = "absent" -> "ConfigFileNotFoundError"
      [] c = "malformed" -> "ConfigParseError"
      [] OTHER -> "nil"

\* config.Load: a missing file is no error; v.Unmarshal fails on a value of
\* the wrong type
Load(c) ==
    IF ReadInConfig(c) \notin {"nil", "ConfigFileNotFoundError"}
    THEN ReadInConfig(c)
    ELSE IF c = "mistyped" THEN "UnmarshalError" ELSE "nil"

\* what the RunE of a registered command can return
HandlerResults(cmd) ==
    CASE cmd = "commit" ->
            {"nil", "not in a git repository", "no staged changes to commit",
             "pre-commit cleanup failed", "failed to generate commit message",
             "failed to commit"}
      [] cmd = "pr" ->
            {"nil", "not in a git repository", "failed to get current branch",
             "cannot create PR from main branch", "cannot create PR from master branch",
             "GitHub CLI (gh) is not installed or not authenticated",
             "failed to generate PR description"}
      [] cmd = "branch" ->
            {"nil", "failed to get current branch", "not in a git repository",
             "error creating worktree", "error opening editor"}

\* a program that reports the error and ends like a success
ExitStatusAlwaysZero(err) == 0

\* Execute: os.Exit(1) when rootCmd.Execute returned an error, else the
\* program runs to its end
ExitStatus(err) == IF err # "nil" THEN 1 ELSE 0

InitMain ==
    /\ pc = "main" /\ log = <<>> /\ ret = "running"
    /\ ToolIdle /\ ScanIdle /\ history = <<>> /\ CommitIdle /\ PrIdle /\ ExecIdle /\ ConfIdle /\ BranchIdle
    /\ argv \in {""} \cup Surface
    /\ cfg \in CfgStates
    /\ loadErr = "none" /\ execErr = "none" /\ exitCode = -1 /\ stderr = <<>>

\* no subcommand: the root command has no Run and prints its help
MainHelp ==
    /\ pc = "main" /\ argv = ""
    /\ execErr' = "nil" /\ pc' = "exit"
    /\ UNCHANGED <<log, ret, toolVars, scanVars, history, confVars, branchVars, commitVars, prVars,
                   argv, cfg, loadErr, exitCode, stderr, execVars>>

\* the word names no command of the root
MainUnknown ==
    /\ pc = "main" /\ argv # "" /\ argv \notin Registered
    /\ execErr' = "unknown command"
    /\ stderr' = Append(stderr, [by |-> "cobra", msg |-> "unknown command"])
    /\ pc' = "exit"
    /\ UNCHANGED <<log, ret, toolVars, scanVars, history, confVars, branchVars, commitVars, prVars,
                   argv, cfg, loadErr, exitCode, execVars>>

\* the word names a registered command: its PersistentPreRunE is the root's
MainDispatch ==
    /\ pc = "main" /\ argv \in Registered
    /\ pc' = "prerun"
    /\ UNCHANGED <<log, ret, toolVars, scanVars, history, confVars, branchVars, commitVars, prVars,
                   mainVars, execVars>>

MainPreRun ==
    /\ pc = "prerun"
    /\ loadErr' = Load(cfg)
    /\ IF loadErr' = "nil"
       THEN pc' = "handler" /\ UNCHANGED <<execErr, stderr>>
       ELSE /\ execErr' = loadErr'
            /\ stderr' = Append(stderr, [by |-> "cobra", msg |-> loadErr'])
            /\ pc' = "exit"
    /\ UNCHANGED <<log, ret, toolVars, scanVars, history, confVars, branchVars, commitVars, prVars,
                   argv, cfg, exitCode, execVars>>

MainHandler ==
    /\ pc = "handler"
    /\ \E r \in HandlerResults(argv) :
         /\ ret' = r /\ execErr' = r
         /\ stderr' = IF r = "nil" THEN stderr
                      ELSE Append(stderr, [by |-> "cobra", msg |-> r])
    /\ pc' = "exit"
    /\ UNCHANGED <<log, toolVars, scanVars, history, confVars, branchVars, commitVars, prVars,
                   argv, cfg, loadErr, exitCode, execVars>>

\* the body of Execute after rootCmd.Execute returned
MainExit ==
    /\ pc = "exit"
    /\ stderr' = IF execErr # "nil"
                 THEN Append(stderr, [by |-> "Execute", msg |-> execErr])
                 ELSE stderr
    /\ exitCode' = ExitStatus(execErr)
    /\ pc' = "exited"
    /\ UNCHANGED <<log, ret, toolVars, scanVars, history, confVars, branchVars, commitVars, prVars,
                   argv, cfg, loadErr, execErr, execVars>>

NextMain ==
    \/ MainHelp
    \/ MainUnknown
    \/ MainDispatch
    \/ MainPreRun
    \/ MainHandler
    \/ MainExit

SpecMain == InitMain /\ [][NextMain]_vars

(***************************************************************************)
(* External processes.  A call is one exec.Command of the source with the  *)
(* method the source runs it by and the way it ends on the code path; a    *)
(* path is the calls of one execution of a command, in program order.  The *)
(* start of a process, its end and the return of the method are steps of   *)
(* their own.                                                              *)
(***************************************************************************)
Call(cmd, method, ok) == [cmd |-> cmd, method |-> method, ok |-> ok]

\* pr on a feature branch; gh cannot tell the default branch
PathPr ==
    << Call("git rev-parse --git-dir", "Run", TRUE),
       Call("git branch --show-current", "Output", TRUE),
       Call("gh --version", "Run", TRUE),
       Call("gh auth status", "Run", TRUE),
       Call("gh repo view", "Output", FALSE),
       Call("git diff --name-status", "Output", TRUE),
       Call("git log --oneline", "Output", TRUE),
       Call("git diff --stat", "Output", TRUE),
       Call("claude pr", "Output", TRUE) >>

\* commit without a message; the first pre-commit run fails, the second passes
PathCommit ==
    << Call("git rev-parse --git-dir", "Run", TRUE),
       Call("git diff --cached --exit-code", "Run", FALSE),
       Call("git rev-parse --show-toplevel", "Output", TRUE),
       Call("pre-commit run --all-files", "CombinedOutput", FALSE),
       Call("claude fix", "CombinedOutput", TRUE),
       Call("git add .", "Run", TRUE),
       Call("pre-commit run --all-files", "CombinedOutput", TRUE),
       Call("git status --porcelain", "Output", TRUE),
       Call("git diff --cached --name-status", "Output", TRUE),
       Call("claude message", "Output", TRUE),
       Call("git commit", "CombinedOutput", TRUE) >>

\* commit whose fixer fails
PathCommitFixFails ==
    << Call("git rev-parse --git-dir", "Run", TRUE),
       Call("git diff --cached --exit-code", "Run", FALSE),
       Call("pre-commit run --all-files", "CombinedOutput", FALSE),
       Call("claude fix", "CombinedOutput", FALSE) >>

\* scan of a Go project with every category and every tool installed
PathScanGo ==
    << Call("gitleaks", "CombinedOutput", TRUE),
       Call("go vet", "CombinedOutput", FALSE),
       Call("staticcheck", "CombinedOutput", TRUE),
       Call("gosec", "CombinedOutput", FALSE),
       Call("govulncheck", "CombinedOutput", TRUE) >>

\* scan of a Python and Rust project
PathScanPythonRust ==
    << Call("gitleaks", "CombinedOutput", FALSE),
       Call("bandit", "CombinedOutput", TRUE),
       Call("pylint", "CombinedOutput", TRUE),
       Call("safety", "CombinedOutput", TRUE),
       Call("cargo clippy", "CombinedOutput", TRUE),
       Call("cargo audit", "CombinedOutput", TRUE) >>

\* branch with tmux
PathBranch ==
    << Call("git branch --show-current", "Output", TRUE),
       Call("git rev-parse --git-dir", "Run", TRUE),
       Call("git rev-parse --show-toplevel", "Output", TRUE),
       Call("git worktree add", "CombinedOutput", TRUE),
       Call("tmux new-window", "Run", TRUE),
       Call("tmux send-keys", "Run", TRUE) >>

\* addcheat
PathAddcheat ==
    << Call("zsh -c tail", "Output", TRUE),
       Call("claude cheat", "Run", TRUE) >>

Paths ==
    { PathPr, PathCommit, PathCommitFixFails, PathScanGo, PathScanPythonRust,
      PathBranch, PathAddcheat }

\* a method that starts the process and returns at once, like cmd.Start
BlocksNever(method) == FALSE

\* Run, Output and CombinedOutput of os/exec start the process and wait for
\* it; the source uses no other method
Blocks(method) == method \in {"Run", "Output", "CombinedOutput"}

InitExec ==
    /\ pc = "call" /\ log = <<>> /\ ret = "running"
    /\ ToolIdle /\ ScanIdle /\ history = <<>> /\ CommitIdle /\ PrIdle /\ MainIdle
    /\ ConfIdle /\ BranchIdle
    /\ script \in Paths
    /\ ip = 1 /\ running = {} /\ exited = {}

\* where the program stands after the call at i is over
AfterCall(i) ==
    IF i + 1 > Len(script)
    THEN pc' = "done" /\ ret' = "nil" /\ ip' = i + 1
    ELSE pc' = "call" /\ ret' = ret /\ ip' = i + 1

\* the program reaches an exec.Command and runs it: the process starts
ExecStart ==
    /\ pc = "call"
    /\ running' = running \cup {ip}
    /\ IF Blocks(script[ip].method)
       THEN pc' = "wait" /\ UNCHANGED <<ret, ip>>
       ELSE AfterCall(ip)
    /\ UNCHANGED <<log, toolVars, scanVars, history, confVars, branchVars, commitVars, prVars,
                   mainVars, script, exited>>

\* a running process ends
ProcessExit ==
    /\ \E i \in running \ exited : exited' = exited \cup {i}
    /\ UNCHANGED <<pc, log, ret, toolVars, scanVars, history, confVars, branchVars, commitVars, prVars,
                   mainVars, script, ip, running>>

\* the method returns: the process is reaped and its result is the program's
ExecWait ==
    /\ pc = "wait" /\ ip \in exited
    /\ running' = running \ {ip}
    /\ exited' = exited \ {ip}
    /\ log' = Append(log, Exec(script[ip].cmd, script[ip].ok, <<>>))
    /\ AfterCall(ip)
    /\ UNCHANGED <<toolVars, scanVars, history, confVars, branchVars, commitVars, prVars, mainVars, script>>

NextExec ==
    \/ ExecStart
    \/ ProcessExit
    \/ ExecWait

SpecExec == InitExec /\ [][NextExec]_vars

(***************************************************************************)
(* The configuration (config/load.go): Load and Get around the package     *)
(* variable globalConfig.  Between two calls the file may be rewritten.    *)
(* An entry of the log is one call: the function, what it returned, and    *)
(* whether it read the file.                                               *)
(***************************************************************************)
\* calls of Load and Get and rewrites of the file in one run
MaxCalls == 4

\* a file: absent, not YAML, a value of the wrong type, or keys with values
ConfigFiles ==
    { [kind |-> k, usingTmux |-> "unset", cleanup |-> <<>>] :
        k \in {"absent", "malformed", "mistyped"} }
    \cup [kind : {"valid"}, usingTmux : {"unset", "false"}, cleanup : {<<>>, <<"bruh">>}]

DefaultConfig == [usingTmux |-> TRUE, editor |-> "nvim", cleanup |-> <<>>]

\* v.Unmarshal(&config) over the defaults Load sets and the keys of the file
Unmarshal(file) ==
    [usingTmux |-> IF file.kind = "valid" /\ file.usingTmux # "unset"
                   THEN file.usingTmux = "true"
                   ELSE DefaultConfig.usingTmux,
     editor |-> DefaultConfig.editor,
     cleanup |-> IF file.kind = "valid" THEN file.cleanup ELSE <<>>]

Pointer(c) == [set |-> TRUE, value |-> c]

\* a Load that reads the file on every call
IsCachedNever(g) == FALSE

\* globalConfig != nil
IsCached(g) == g # NoConfig

\* config.Load with globalConfig = g: what it returns, what it leaves in
\* globalConfig, and whether it called ReadInConfig
ConfigLoad(g, file) ==
    IF IsCached(g)
    THEN [config |-> g, err |-> "nil", global |-> g, read |-> FALSE]
    ELSE IF Load(file.kind) # "nil"
         THEN [config |-> NoConfig, err |-> Load(file.kind), global |-> g, read |-> TRUE]
    ELSE [config |-> Pointer(Unmarshal(file)), err |-> "nil",
          global |-> Pointer(Unmarshal(file)), read |-> TRUE]

\* config.Get
ConfigGet(g, file) ==
    IF g = NoConfig
    THEN LET r == ConfigLoad(g, file)
         IN  IF r.err # "nil"
             THEN [r EXCEPT !.config = Pointer(DefaultConfig), !.err = "nil"]
             ELSE r
    ELSE [config |-> g, err |-> "nil", global |-> g, read |-> FALSE]

ConfCall(fn, r) == [fn |-> fn, config |-> r.config, err |-> r.err, read |-> r.read]

InitConfig ==
    /\ pc = "config" /\ log = <<>> /\ ret = "running"
    /\ ToolIdle /\ ScanIdle /\ history = <<>> /\ CommitIdle /\ PrIdle /\ MainIdle
    /\ ExecIdle /\ BranchIdle
    /\ globalConfig = NoConfig
    /\ cfgFile \in ConfigFiles

ConfLoad ==
    /\ pc = "config" /\ Len(log) < MaxCalls
    /\ LET r == ConfigLoad(globalConfig, cfgFile)
       IN  /\ globalConfig' = r.global
           /\ log' = Append(log, ConfCall("Load", r))
    /\ UNCHANGED <<pc, ret, toolVars, scanVars, history, commitVars, prVars, mainVars,
                   execVars, cfgFile, branchVars>>

ConfGet ==
    /\ pc = "config" /\ Len(log) < MaxCalls
    /\ LET r == ConfigGet(globalConfig, cfgFile)
       IN  /\ globalConfig' = r.global
           /\ log' = Append(log, ConfCall("Get", r))
    /\ UNCHANGED <<pc, ret, toolVars, scanVars, history, commitVars, prVars, mainVars,
                   execVars, cfgFile, branchVars>>

\* the user or another program rewrites the file while the process runs
ConfEdit ==
    /\ pc = "config" /\ Len(log) < MaxCalls
    /\ \E file \in ConfigFiles \ {cfgFile} : cfgFile' = file
    /\ log' = Append(log, [fn |-> "edit", config |-> NoConfig, err |-> "nil", read |-> FALSE])
    /\ UNCHANGED <<pc, ret, toolVars, scanVars, history, commitVars, prVars, mainVars,
                   execVars, globalConfig, branchVars>>

NextConfig ==
    \/ ConfLoad
    \/ ConfGet
    \/ ConfEdit

SpecConfig == InitConfig /\ [][NextConfig]_vars

(***************************************************************************)
(* The branch command: RunE, createWorktree and openEditor.  RunE runs     *)
(* after the root's PersistentPreRunE loaded the configuration.            *)
(***************************************************************************)
BranchInputs ==
    [tmuxFlag : {"unset", "true", "false"}, TMUX : {"", "/tmp/tmux-0/default,1,0"},
     fromBranch : {<<>>, <<"dev">>}, editor : {"", "code"}]

\* the files with which config.Load returns no error
LoadableFiles == { file \in ConfigFiles : Load(file.kind) = "nil" }

\* a command that takes the value of the flag whether it was passed or not
usingTmuxFlagOnly(flag, configured) == flag = "true"

\* GetBool("using-tmux"), replaced by the configured value unless Changed
usingTmux(flag, configured) == IF flag = "unset" THEN configured ELSE flag = "true"

\* os.Getenv("TMUX") != ""
isTmuxRunning(env) == env # ""

\* the branch of openEditor
openEditor(rt, env) == IF rt.UsingTmux /\ isTmuxRunning(env) THEN "tmuxwindow" ELSE "direct"

\* filepath.Dir of a cleaned absolute path
RECURSIVE Dir(_)
Dir(path) ==
    IF Len(path) <= 1 THEN <<"/">>
    ELSE IF path[Len(path)] = "/" THEN Dir(SubSeq(path, 1, Len(path) - 1))
    ELSE IF Len(path) = 2 THEN <<"/">>
    ELSE SubSeq(path, 1, Len(path) - 2)

\* filepath.Join(parentDir, repoName + "-" + branchName)
WorktreePath(repoRoot, branchName) ==
    LET last == <<Base(repoRoot), "-">> \o branchName
    IN  IF Dir(repoRoot) = <<"/">>
        THEN <<"/">> \o (IF Head(last) = "/" THEN Tail(last) ELSE last)
        ELSE Dir(repoRoot) \o <<"/">> \o last

InitBranch ==
    /\ pc = "start" /\ log = <<>> /\ ret = "running"
    /\ ToolIdle /\ ScanIdle /\ history = <<>> /\ CommitIdle /\ PrIdle /\ MainIdle
    /\ ExecIdle
    /\ cfgFile \in LoadableFiles
    /\ globalConfig = ConfigLoad(NoConfig, cfgFile).global
    /\ bin \in BranchInputs
    /\ runtime = NoRuntime /\ worktreePath = <<>>

\* RunE up to its first external process
BranchStart ==
    /\ pc = "start"
    /\ LET c == ConfigGet(globalConfig, cfgFile)
       IN  /\ globalConfig' = c.global
           /\ runtime' =
                [UsingTmux |-> usingTmux(bin.tmuxFlag, c.config.value.usingTmux),
                 FromBranch |-> bin.fromBranch,
                 BranchName |-> IF bin.fromBranch = <<>> THEN <<>>
                                ELSE bin.fromBranch \o <<"-worktree">>,
                 Editor |-> IF bin.editor = "" THEN c.config.value.editor
                            ELSE bin.editor]
    /\ pc' = IF bin.fromBranch = <<>> THEN "current" ELSE "validate"
    /\ UNCHANGED <<log, ret, toolVars, scanVars, history, commitVars, prVars, mainVars,
                   execVars, cfgFile, bin, worktreePath>>

BranchCurrent ==
    /\ pc = "current"
    /\ \E ok \in BOOLEAN : \E out \in BranchOutputs :
         /\ log' = Append(log, Exec("git branch --show-current", ok, <<>>))
         /\ IF ok
            THEN /\ runtime' = [runtime EXCEPT
                                  !.FromBranch = TrimSpace(out),
                                  !.BranchName = TrimSpace(out) \o <<"-worktree">>]
                 /\ pc' = "validate" /\ ret' = ret
            ELSE /\ runtime' = runtime
                 /\ pc' = "done" /\ ret' = "failed to get current branch"
    /\ UNCHANGED <<toolVars, scanVars, history, commitVars, prVars, mainVars,
                   execVars, confVars, bin, worktreePath>>

BranchValidate ==
    /\ pc = "validate"
    /\ \E ok \in BOOLEAN :
         /\ log' = Append(log, Exec("git rev-parse --git-dir", ok, <<>>))
         /\ IF ok THEN pc' = "reporoot" /\ ret' = ret
            ELSE pc' = "done" /\ ret' = "not in a git repository"
    /\ UNCHANGED <<toolVars, scanVars, history, commitVars, prVars, mainVars,
                   execVars, confVars, branchVars>>

\* getRepoRoot and the path of the worktree
BranchRepoRoot ==
    /\ pc = "reporoot"
    /\ \E ok \in BOOLEAN : \E out \in RepoRoots :
         /\ log' = Append(log, Exec("git rev-parse --show-toplevel", ok, <<>>))
         /\ IF ok
            THEN /\ worktreePath' = WorktreePath(TrimSpace(out), runtime.BranchName)
                 /\ pc' = "worktree" /\ ret' = ret
            ELSE /\ worktreePath' = worktreePath
                 /\ pc' = "done" /\ ret' = "error creating worktree"
    /\ UNCHANGED <<toolVars, scanVars, history, commitVars, prVars, mainVars,
                   execVars, confVars, bin, runtime>>

\* git worktree add, and on success the branch openEditor takes
BranchWorktreeAdd ==
    /\ pc = "worktree"
    /\ \E ok \in BOOLEAN :
         /\ log' = Append(log, Exec("git worktree add", ok, worktreePath))
         /\ IF ok THEN pc' = openEditor(runtime, bin.TMUX) /\ ret' = ret
            ELSE pc' = "done" /\ ret' = "error creating worktree"
    /\ UNCHANGED <<toolVars, scanVars, history, commitVars, prVars, mainVars,
                   execVars, confVars, branchVars>>

BranchTmuxWindow ==
    /\ pc = "tmuxwindow"
    /\ \E ok \in BOOLEAN :
         /\ log' = Append(log, Exec("tmux new-window", ok, worktreePath))
         /\ IF ok THEN pc' = "tmuxkeys" /\ ret' = ret
            ELSE pc' = "done" /\ ret' = "error opening editor"
    /\ UNCHANGED <<toolVars, scanVars, history, commitVars, prVars, mainVars,
                   execVars, confVars, branchVars>>

BranchTmuxKeys ==
    /\ pc = "tmuxkeys"
    /\ \E ok \in BOOLEAN :
         /\ log' = Append(log, Exec("tmux send-keys", ok, <<runtime.Editor>>))
         /\ ret' = IF ok THEN "nil" ELSE "error opening editor"
    /\ pc' = "done"
    /\ UNCHANGED <<toolVars, scanVars, history, commitVars, prVars, mainVars,
                   execVars, confVars, branchVars>>

BranchEditorDirect ==
    /\ pc = "direct"
    /\ \E ok \in BOOLEAN :
         /\ log' = Append(log, Exec("editor", ok, <<runtime.Editor>>))
         /\ ret' = IF ok THEN "nil" ELSE "error opening editor"
    /\ pc' = "done"
    /\ UNCHANGED <<toolVars, scanVars, history, commitVars, prVars, mainVars,
                   execVars, confVars, branchVars>>

NextBranch ==
    \/ BranchStart
    \/ BranchCurrent
    \/ BranchValidate
    \/ BranchRepoRoot
    \/ BranchWorktreeAdd
    \/ BranchTmuxWindow
    \/ BranchTmuxKeys
    \/ BranchEditorDirect

SpecBranch == InitBranch /\ [][NextBranch]_vars

(***************************************************************************)
(* Properties.                                                             *)
(***************************************************************************)
Invoked == { log[i] : i \in DOMAIN log }

SomeSelected == sel.secrets \/ sel.security \/ sel.static \/ sel.vulns

\* the executable of a tool is not resolvable on the search path: the name the
\* wrapper looks up is not found, or, for go vet, go cannot be started
ExecutableMissing(t, pr) == IF LookPathName(t) # "" THEN ~pr.found ELSE ~pr.started

\* C1: a wrapper whose tool is not resolvable reports it unavailable and
\* returns success, so that the scan's failure flag is not set by it.
C1_UnavailableIsNoFailure ==
    (pc = "done" /\ wrapper # "" /\ ExecutableMissing(wrapper, probe))
        => (res.class = "Unavailable" /\ ~res.err /\ ret = "nil")

\* the exit codes the tools document for "issues found"
DocumentedIssues(t) ==
    CASE t \in {"gitleaks", "gosec", "staticcheck", "eslint", "npm audit",
                "bandit", "spotbugs", "cargo audit"} -> {1}
      [] t = "govulncheck" -> {3}
      [] t = "safety" -> {64}
      [] t = "pmd" -> {4}
      [] t = "cargo clippy" -> {101}
      [] t = "pylint" -> 1..32
      [] OTHER -> {}

\* C2: for a process that ran, exit code 0 is Clean, the documented issues
\* code of the tool is IssuesFound, every other outcome that is not zero is
\* ExecutionError.
C2_ExitCodeClassification ==
    (pc = "done" /\ wrapper # "" /\ probe.found /\ probe.started) =>
        /\ probe.code = 0 => res.class = "Clean"
        /\ probe.code \in DocumentedIssues(wrapper) => res.class = "IssuesFound"
        /\ (probe.code # 0 /\ probe.code \notin DocumentedIssues(wrapper))
               => res.class = "ExecutionError"

\* the wrappers that belong to an ecosystem and a scan category
CategoryTools(lang, cat) ==
    CASE cat = "secrets" -> {"gitleaks"}
      [] lang = "go" /\ cat = "static" -> {"go vet", "staticcheck"}
      [] lang = "go" /\ cat = "security" -> {"gosec"}
      [] lang = "go" /\ cat = "vulns" -> {"govulncheck"}
      [] lang \in {"javascript", "typescript"} /\ cat = "static" -> {"eslint"}
      [] lang \in {"javascript", "typescript"} /\ cat = "vulns" -> {"npm audit"}
      [] lang = "python" /\ cat = "security" -> {"bandit"}
      [] lang = "python" /\ cat = "static" -> {"pylint"}
      [] lang = "python" /\ cat = "vulns" -> {"safety"}
      [] lang = "java" /\ cat = "static" -> {"spotbugs", "pmd"}
      [] lang = "rust" /\ cat = "static" -> {"cargo clippy"}
      [] lang = "rust" /\ cat = "vulns" -> {"cargo audit"}
      [] OTHER -> {}

\* C3: the aggregator never short-circuits: when the scan has ended, every
\* wrapper of every ecosystem of the effective list and every enabled category
\* was invoked, whatever the wrappers before it reported.
C3_NoShortCircuit ==
    (pc = "done" /\ wrapper = "") =>
        \A i \in DOMAIN languages : \A cat \in Categories :
            sel[cat] => CategoryTools(languages[i], cat) \subseteq Invoked

\* a wrapper of an earlier group failed and a wrapper of a later group ran
C3_Witness ==
    /\ pc = "lang" /\ hasErrors /\ anyFailed /\ ~grpErr
    /\ li = 2 /\ gi > 1 /\ Len(log) >= 3

\* C4: with a category enabled and a non-empty ecosystem list the scan returns
\* success exactly when no invoked wrapper reported IssuesFound or
\* ExecutionError, and "one or more scans detected issues" when one did.
C4_ResultIffNoFailure ==
    (pc = "done" /\ wrapper = "" /\ SomeSelected /\ languages # <<>>) =>
        /\ ret = "nil" <=> ~anyFailed
        /\ anyFailed => ret = "one or more scans detected issues"

\* a scan in which a wrapper failed, wrappers after it ran, and the scan failed
C4_Witness ==
    /\ pc = "done" /\ anyFailed /\ ret = "one or more scans detected issues"
    /\ Len(log) >= 4 /\ Len(languages) >= 2

\* the command line "scan --static"
OnlyStatic ==
    flags = [NoFlags EXCEPT !.static = "true"]

\* C5: in a directory that holds only go.mod detection yields exactly go, and
\* "scan --static" runs go vet and staticcheck and neither gosec nor
\* govulncheck.
C5_StaticRunsOnlyStaticTools ==
    (pc = "done" /\ wrapper = "" /\ OnlyStatic /\ tree = {<<GoMod>>}) =>
        /\ languages = <<"go">>
        /\ Invoked \subseteq {"go vet", "staticcheck"}

\* C6: with a forced language detectLanguages is never called and the
\* effective ecosystem list is exactly the forced value.
C6_ForcedLanguageSkipsDetection ==
    flags.language # "" =>
        /\ detectRuns = 0
        /\ SomeSelected => languages = <<flags.language>>

\* a forced scan has ended in a directory in which detection finds other ecosystems
C6_Witness ==
    /\ pc = "done" /\ flags.language = "rust" /\ log # <<>>
    /\ detectLanguages(tree) = <<"go", "python">>
    /\ languages = <<"rust">>

PreCommitRuns == { i \in DOMAIN log : log[i].cmd = "pre-commit run --all-files" }

FailedPreCommitRuns == { i \in PreCommitRuns : ~log[i].ok }

CleanupFailed == cleanupErr \notin {"none", "nil"}

\* C7 as stated: whenever runPreCommitCleanup returns an error, pre-commit
\* was run exactly 5 times and exited non-zero each time.
C7_EveryErrorAfterFiveRuns ==
    CleanupFailed =>
        Cardinality(PreCommitRuns) = 5 /\ Cardinality(FailedPreCommitRuns) = 5

\* C7 amended: pre-commit is never run more than 5 times; the error "failed
\* to fix pre-commit issues after 5 attempts" is returned after exactly 5
\* runs that all exited non-zero; every other error of the cleanup (the fixer
\* or git add failed) is returned after 1 to 5 runs that all exited non-zero;
\* and the command terminates when every external process does.
C7_CleanupLoopBounded ==
    /\ [](/\ Cardinality(PreCommitRuns) <= 5
          /\ cleanupErr = "failed to fix pre-commit issues after 5 attempts"
                => Cardinality(FailedPreCommitRuns) = 5
          /\ CleanupFailed =>
                /\ Cardinality(PreCommitRuns) \in 1..5
                /\ FailedPreCommitRuns = PreCommitRuns
                /\ ret = "pre-commit cleanup failed")
    /\ <>(pc = "done")

\* the cleanup gave up after the fifth failed run and its fifth fix
C7_Witness ==
    /\ pc = "done"
    /\ cleanupErr = "failed to fix pre-commit issues after 5 attempts"
    /\ Cardinality(FailedPreCommitRuns) = 5 /\ Len(log) >= 17

AfterStagedCheck == { "claude fix", "claude message", "pre-commit run --all-files", "git commit" }

\* C8: when "git diff --cached --exit-code" reports no staged changes, the
\* commit command has returned "no staged changes to commit" and has run no
\* AI invocation, no pre-commit and no git commit; and none of these is ever
\* run without a staged-changes check before it that found changes.
C8_NoStagedChangesStopsCommit ==
    /\ \A i \in DOMAIN log :
          (log[i].cmd = "git diff --cached --exit-code" /\ log[i].ok) =>
              /\ pc = "done" /\ ret = "no staged changes to commit"
              /\ \A j \in DOMAIN log : log[j].cmd \notin AfterStagedCheck
    /\ \A j \in DOMAIN log :
          log[j].cmd \in AfterStagedCheck =>
              \E i \in 1..(j - 1) :
                  log[i].cmd = "git diff --cached --exit-code" /\ ~log[i].ok

\* nothing is staged, with the cleanup asked for and no message given
C8_Witness ==
    /\ pc = "done" /\ ret = "no staged changes to commit"
    /\ Len(log) = 2 /\ log[2].ok
    /\ cin.cleanupFlag = "true" /\ cin.args = <<>>

RefusedBranch ==
    ret \in {"cannot create PR from main branch", "cannot create PR from master branch"}

\* C9 as stated: on main or master the pr handler invokes no external program
\* before it returns "cannot create PR from <branch> branch".
C9_NoProgramBeforeRefusal == RefusedBranch => log = <<>>

\* C9 amended: on main or master the pr handler returns "cannot create PR
\* from <branch> branch" after exactly two external programs, git rev-parse
\* --git-dir and git branch --show-current; gh and claude are never invoked.
C9_OnlyGitBeforeRefusal ==
    /\ currentBranch \in {<<"main">>, <<"master">>} => (pc = "done" /\ RefusedBranch)
    /\ RefusedBranch =>
          /\ currentBranch \in {<<"main">>, <<"master">>}
          /\ ret = CannotCreate(currentBranch)
          /\ Len(log) = 2
          /\ log[1].cmd = "git rev-parse --git-dir"
          /\ log[2].cmd = "git branch --show-current"

\* pr was refused on master
C9_Witness ==
    /\ pc = "done" /\ ret = "cannot create PR from master branch"
    /\ currentBranch = <<"master">> /\ Len(log) = 2

\* the names filepath.Walk is told to skip as directories
SkippedDirName(n) ==
    HasPrefix(n, <<".">>) \/ n \in {<<"node_modules">>, <<"vendor">>, <<"target">>}

\* the files of a tree that lie in no hidden and no dependency directory
VisibleFiles(t) ==
    { f \in t : \A i \in 1..(Len(f) - 1) : ~SkippedDirName(f[i]) }

Ecosystems == {"go", "js", "python", "java", "rust"}

MarkersOf(eco) ==
    CASE eco = "go" -> {GoMod}
      [] eco = "js" -> {PackageJson}
      [] eco = "python" -> {RequirementsTxt, PyprojectToml, SetupPy}
      [] eco = "java" -> {PomXml, BuildGradle}
      [] eco = "rust" -> {CargoToml}

ExtensionsOf(eco) ==
    CASE eco = "go" -> {<<".", "go">>}
      [] eco = "js" -> {<<".", "js">>, <<".", "ts">>, <<".", "jsx">>, <<".", "tsx">>}
      [] eco = "python" -> {<<".", "py">>}
      [] eco = "java" -> {<<".", "java">>}
      [] eco = "rust" -> {<<".", "rs">>}

NamesOf(eco) == IF eco = "js" THEN {"javascript", "typescript"} ELSE {eco}

\* no marker of the ecosystem, and a visible file with one of its extensions
OnlyByExtension(t, eco) ==
    /\ \A mk \in MarkersOf(eco) : <<mk>> \notin t
    /\ \E f \in VisibleFiles(t) :
          \E ext \in ExtensionsOf(eco) : HasSuffix(f[Len(f)], ext)

\* C11: when no marker file of an ecosystem is present and a file outside
\* hidden and dependency directories ends in one of its extensions, the list
\* detectLanguages returns includes that ecosystem.
C11_ExtensionFallbackDetects ==
    \A i \in DOMAIN history : \A eco \in Ecosystems :
        OnlyByExtension(tree, eco) =>
            \E k \in DOMAIN history[i] : history[i][k] \in NamesOf(eco)

\* C12: whenever the secrets category is enabled the gitleaks wrapper is
\* called by the scan, whatever the effective ecosystem list is, the empty
\* list included.
C12_SecretsAlwaysRun ==
    (pc = "done" /\ wrapper = "" /\ sel.secrets) => "gitleaks" \in Invoked

\* position of the group a tool of the log belongs to: 0 for gitleaks
EcoRank(t) ==
    IF t = "gitleaks" THEN 0
    ELSE CHOOSE i \in DOMAIN languages :
            t \in UNION { CategoryTools(languages[i], cat) :
                            cat \in Categories \ {"secrets"} }

\* position of an ecosystem in the order detection inserts them
DetectionRank(l) ==
    CASE l = "go" -> 1
      [] l \in {"javascript", "typescript"} -> 2
      [] l = "python" -> 3
      [] l = "java" -> 4
      [] l = "rust" -> 5

\* C13: gitleaks, when it runs, is the first tool of the scan; the tools of
\* the ecosystems follow group by group in the order of the effective list,
\* no tool twice; and a detected list is in the order go,
\* javascript/typescript, python, java, rust.
C13_ScanOrder ==
    /\ \A i \in DOMAIN log : log[i] = "gitleaks" => i = 1
    /\ \A i, j \in DOMAIN log :
          i < j => (log[i] # log[j] /\ EcoRank(log[i]) <= EcoRank(log[j]))
    /\ flags.language = "" =>
          \A i, j \in DOMAIN languages :
              i < j => DetectionRank(languages[i]) < DetectionRank(languages[j])

\* a scan of a python and java directory has run gitleaks and both groups
C13_Witness ==
    /\ pc = "done" /\ flags.language = ""
    /\ languages = <<"python", "java">>
    /\ Len(log) = 6 /\ log[1] = "gitleaks" /\ log[6] = "pmd"

\* C14: when the AI that writes the commit message fails, or its output is
\* empty after trimming, the commit command has failed with "failed to
\* generate commit message" and git commit is not run; otherwise the message
\* handed to git commit is the output without leading and trailing whitespace.
C14_EmptyMessageRejected ==
    \A i \in DOMAIN log :
        log[i].cmd = "claude message" =>
            /\ cin.args = <<>>
            /\ IF ~log[i].ok \/ TrimSpace(log[i].arg) = <<>>
               THEN /\ pc = "done" /\ ret = "failed to generate commit message"
                    /\ \A j \in DOMAIN log : log[j].cmd # "git commit"
               ELSE /\ commitMessage = TrimSpace(log[i].arg)
                    /\ Head(commitMessage) \notin WhiteSpace
                    /\ commitMessage[Len(commitMessage)] \notin WhiteSpace
                    /\ \A j \in DOMAIN log :
                          log[j].cmd = "git commit" =>
                              j = i + 1 /\ log[j].arg = commitMessage

\* the AI answered with whitespace only and the commit command failed
C14_Witness ==
    /\ pc = "done" /\ ret = "failed to generate commit message"
    /\ log # <<>> /\ log[Len(log)].cmd = "claude message"
    /\ log[Len(log)].ok /\ log[Len(log)].arg = <<" ", "\n">>

\* C15 as stated: when the AI of the pr command answers with nothing but
\* whitespace, the pr command fails.
C15_EmptyDescriptionRejected ==
    (/\ pc = "done" /\ log # <<>>
     /\ log[Len(log)].cmd = "claude pr" /\ log[Len(log)].ok
     /\ prDescription = <<>>)
        => ret # "nil"

IsPreCommit(e) == e.cmd = "pre-commit run --all-files"

\* runs of pre-commit among the first i entries of the log
RunsUpTo(i) == Cardinality({ k \in 1..i : IsPreCommit(log[k]) })

C20_FailureShowsOutput ==
    (pc = "done" /\ wrapper # "") =>
        /\ res.class \in {"IssuesFound", "ExecutionError"} => (res.shown /\ res.err)
        /\ res.class = "Clean" => ~res.err

\* C17: the process exits with status 0 when configuration loading and the
\* handler returned no error, and only then; on every path on which one of
\* them, or the dispatch, returned an error it exits with status 1 after
\* the error was written to standard error by Execute.
C17_ExitStatus ==
    pc = "exited" =>
        /\ exitCode \in {0, 1}
        /\ (loadErr = "nil" /\ ret = "nil") => exitCode = 0
        /\ exitCode = 0 =>
              /\ loadErr \in {"none", "nil"} /\ ret \in {"running", "nil"}
              /\ execErr = "nil" /\ stderr = <<>>
        /\ (loadErr \notin {"none", "nil"} \/ ret \notin {"running", "nil"}
              \/ execErr # "nil") =>
              /\ exitCode = 1
              /\ stderr # <<>>
              /\ stderr[Len(stderr)] = [by |-> "Execute", msg |-> execErr]
              /\ execErr \in {loadErr, ret, "unknown command"}

\* commit found nothing staged and the process ended with status 1
C17_Witness ==
    /\ pc = "exited" /\ argv = "commit" /\ loadErr = "nil"
    /\ ret = "no staged changes to commit" /\ exitCode = 1 /\ Len(stderr) = 2

\* C18 as stated: every subcommand of the documented surface is registered on
\* the root command: invoking it runs the root's PersistentPreRunE and, when
\* the configuration loads, the handler of the subcommand.
C18_AllSubcommandsRegistered ==
    (pc = "exited" /\ argv \in Surface) =>
        /\ execErr # "unknown command"
        /\ loadErr # "none"
        /\ loadErr = "nil" => ret # "running"

\* C16: at every moment at most one external process started by the
\* program is running or not yet reaped, and a process is started only when
\* the result of every process started before it has been consumed.
C16_OneProcessAtATime ==
    /\ [](/\ Cardinality(running) <= 1
          /\ running # {} => (pc = "wait" /\ running = {ip})
          /\ pc = "call" => (running = {} /\ Len(log) = ip - 1))
    /\ [][running' # running /\ running' # {} =>
             (running = {} /\ exited = {} /\ Len(log) = ip - 1)]_vars

\* the fixer of the commit path has ended and is about to be reaped
C16_Witness ==
    /\ pc = "wait" /\ script = PathCommit /\ ip = 5
    /\ running = {5} /\ exited = {5} /\ Len(log) = 4

(***************************************************************************)
(* C21: the configuration is loaded once per process.  After the first     *)
(* successful Load (called directly or through Get), every later Load and  *)
(* Get returns that same configuration without reading the file again; a   *)
(* set globalConfig is never replaced or reset; and a Load that fails      *)
(* leaves globalConfig unset.                                              *)
(***************************************************************************)
IsCall(e) == e.fn \in {"Load", "Get"}

C21_LoadedOncePerProcess ==
    /\ [](\A i \in DOMAIN log : \A j \in DOMAIN log :
            (i < j /\ IsCall(log[i]) /\ IsCall(log[j]) /\ log[i].read
                   /\ log[i].fn = "Load" /\ log[i].err = "nil")
            => /\ log[j].config = log[i].config
               /\ log[j].err = "nil"
               /\ ~log[j].read)
    /\ [][/\ globalConfig # NoConfig => globalConfig' = globalConfig
          /\ (Len(log') > Len(log) /\ log'[Len(log')].fn = "Load"
                /\ log'[Len(log')].err # "nil")
             => globalConfig' = NoConfig /\ log'[Len(log')].config = NoConfig]_vars

\* the file was rewritten after a successful Load, and a later Get returned
\* the configuration of the file as it was
C21_Witness ==
    \E i \in DOMAIN log : \E j \in DOMAIN log : \E k \in DOMAIN log :
        /\ i < j /\ j < k
        /\ log[i].fn = "Load" /\ log[i].err = "nil" /\ log[i].read
        /\ log[j].fn = "edit"
        /\ log[k].fn = "Get" /\ log[k].config = log[i].config
        /\ Load(cfgFile.kind) = "nil"
        /\ Pointer(Unmarshal(cfgFile)) # log[k].config

(***************************************************************************)
(* C22: once the staged-changes check has passed, commit enters the        *)
(* pre-commit cleanup loop exactly when --cleanup-pre-commit was passed as *)
(* true, or was not passed and the name of the repository's top-level      *)
(* directory is in the configured list; passed as false, the loop is not   *)
(* entered whatever the list holds.                                        *)
(***************************************************************************)
\* the name of the directory a path printed by git ends with
TopLevelName(out) ==
    LET names == { i \in DOMAIN out : out[i] \notin {"/", " ", "\n", "\t"} }
    IN  IF names = {} THEN "/"
        ELSE out[CHOOSE i \in names : \A j \in names : j <= i]

CleanupDecided ==
    /\ pc \notin {"validate", "staged", "reponame"}
    /\ Len(log) >= 2 /\ ~log[2].ok

CleanupEntered ==
    pc = "precommit" \/ \E i \in DOMAIN log : log[i].cmd = "pre-commit run --all-files"

ListedRepository ==
    \E i \in DOMAIN log :
        /\ log[i].cmd = "git rev-parse --show-toplevel" /\ log[i].ok
        /\ TopLevelName(log[i].arg) \in cin.cfgList

DocumentedEcosystem(v) == IF v = "js" THEN "javascript" ELSE v

C23_DocumentedValueRunsItsGroup ==
    (pc = "done" /\ wrapper = "" /\ flags.language \in ForceValues /\ SomeSelected) =>
        \A cat \in Categories \ {"secrets"} :
            sel[cat] => CategoryTools(DocumentedEcosystem(flags.language), cat)
                            \subseteq Invoked

(***************************************************************************)
(* C24: createPR returns the first line of the AI output, in order, that   *)
(* contains both "github.com" and "/pull/", trimmed of the white space     *)
(* around it, and the whole description when no line does; it returns no   *)
(* error, so pr returns success whenever the AI command exited zero, with  *)
(* or without a pull-request URL in its output.                            *)
(***************************************************************************)
\* the pieces of a text between its line ends
LinesOf(text) ==
    LET ends == { i \in DOMAIN text : text[i] = "\n" } \cup {0, Len(text) + 1}
    IN  { SubSeq(text, a + 1, b - 1) :
            <<a, b>> \in { c \in ends \X ends :
                             c[1] < c[2] /\ \A e \in ends : ~(c[1] < e /\ e < c[2]) } }

HasURL(line) ==
    /\ \E i \in DOMAIN line : line[i] = "github.com"
    /\ \E i \in DOMAIN line : line[i] = "/pull/"

\* text s without the white space at its ends
Stripped(s) ==
    LET solid == { i \in DOMAIN s : s[i] \notin {" ", "\n", "\t"} }
    IN  IF solid = {} THEN <<>>
        ELSE SubSeq(s, CHOOSE i \in solid : \A j \in solid : i <= j,
                       CHOOSE i \in solid : \A j \in solid : j <= i)

\* the index at which the first line with a URL starts, 0 when there is none
FirstURLStart(text) ==
    LET starts == { i \in 1..(Len(text) + 1) :
                      /\ i = 1 \/ text[i - 1] = "\n"
                      /\ LET rest == SubSeq(text, i, Len(text))
                             stop == { j \in DOMAIN rest : rest[j] = "\n" } \cup {Len(rest) + 1}
                             len == CHOOSE j \in stop : \A k \in stop : j <= k
                         IN  HasURL(SubSeq(rest, 1, len - 1)) }
    IN  IF starts = {} THEN 0 ELSE CHOOSE i \in starts : \A j \in starts : i <= j

LineAt(text, i) ==
    LET rest == SubSeq(text, i, Len(text))
        stop == { j \in DOMAIN rest : rest[j] = "\n" } \cup {Len(rest) + 1}
        len == CHOOSE j \in stop : \A k \in stop : j <= k
    IN  SubSeq(rest, 1, len - 1)

ClaudeExitedZero ==
    pc = "done" /\ log # <<>> /\ log[Len(log)].cmd = "claude pr" /\ log[Len(log)].ok

C24_FirstURLLineOrDescription ==
    ClaudeExitedZero =>
        /\ ret = "nil"
        /\ prURL = IF FirstURLStart(prDescription) = 0
                   THEN prDescription
                   ELSE Stripped(LineAt(prDescription, FirstURLStart(prDescription)))

\* two lines of the output hold a URL, and the first of them, which is not the
\* first line and not trimmed, was returned without the white space around it
C24_Witness ==
    /\ ClaudeExitedZero /\ ret = "nil"
    /\ Cardinality({ l \in LinesOf(prDescription) : HasURL(l) }) = 2
    /\ prURL = <<"github.com", "/o/r", "/pull/", "7">>
    /\ prURL \notin LinesOf(prDescription)

(***************************************************************************)
(* C25: commit runs its steps in the order git-repository check, staged-   *)
(* changes check, optional pre-commit cleanup, message determination, git  *)
(* commit, and stops at the first step that fails: after a failed cleanup  *)
(* neither the AI message generation nor git commit is invoked; with a     *)
(* message argument the AI is not asked for a message and the message      *)
(* committed is the arguments joined by single spaces.                     *)
(***************************************************************************)
StepRank(e) ==
    CASE e.cmd = "git rev-parse --git-dir" -> 1
      [] e.cmd = "git diff --cached --exit-code" -> 2
      [] e.cmd \in {"git rev-parse --show-toplevel", "pre-commit run --all-files",
                    "claude fix", "git add ."} -> 3
      [] e.cmd \in {"git status --porcelain", "git diff --cached --name-status",
                    "claude message"} -> 4
      [] e.cmd = "git commit" -> 5

\* the outcome of a process with which its step has failed
StepFailed(e) ==
    CASE e.cmd = "git diff --cached --exit-code" -> e.ok
      [] e.cmd \in {"git rev-parse --show-toplevel", "pre-commit run --all-files"} -> FALSE
      [] e.cmd = "claude message" ->
            ~e.ok \/ \A i \in DOMAIN e.arg : e.arg[i] \in {" ", "\n", "\t"}
      [] OTHER -> ~e.ok

C25_CommitStepOrder ==
    /\ \A i \in DOMAIN log :
          /\ StepRank(log[i]) = 1 <=> i = 1
          /\ StepRank(log[i]) = 2 <=> i = 2
          /\ StepRank(log[i]) = 5 => i = Len(log) /\ pc = "done"
          /\ \A j \in DOMAIN log : i < j => StepRank(log[i]) <= StepRank(log[j])
          /\ StepFailed(log[i]) => i = Len(log) /\ pc = "done" /\ ret \notin {"nil", "running"}
    /\ CleanupFailed =>
          /\ pc = "done" /\ ret = "pre-commit cleanup failed"
          /\ \A i \in DOMAIN log : log[i].cmd \notin {"claude message", "git commit"}
    /\ Len(cin.args) > 0 =>
          \A i \in DOMAIN log :
              /\ log[i].cmd # "claude message"
              /\ log[i].cmd = "git commit" =>
                    /\ Len(log[i].arg) = 2 * Len(cin.args) - 1
                    /\ \A k \in DOMAIN log[i].arg :
                          log[i].arg[k] = IF k % 2 = 1 THEN cin.args[(k + 1) \div 2] ELSE " "

\* a message of two words was committed after a cleanup that passed on its
\* second run
C25_Witness ==
    /\ pc = "done" /\ ret = "nil" /\ Len(cin.args) = 2
    /\ Len(log) >= 7
    /\ log[Len(log)].cmd = "git commit"
    /\ log[Len(log)].arg = <<cin.args[1], " ", cin.args[2]>>
    /\ \E i \in DOMAIN log : log[i].cmd = "claude fix"

(***************************************************************************)
(* C26: the extension walk of the detector never goes below a directory    *)
(* whose name starts with "." or is node_modules, vendor or target; a file *)
(* with a known extension that lies only inside such a directory does not  *)
(* make detectLanguages report its ecosystem; and once a file of the       *)
(* extension group has matched, the walk visits nothing further.  The walk *)
(* is checked from the root, as hasFilesWithExtension starts it, and from  *)
(* every directory of the tree.                                            *)
(***************************************************************************)
\* the directories of a tree, the root included
DirsOf(t) == {<<>>} \cup UNION { { SubSeq(f, 1, k) : k \in 0..(Len(f) - 1) } : f \in t }

BelowSkippedDir(p, from) ==
    \E k \in (Len(from) + 1)..(Len(p) - 1) : SkippedDirName(p[k])

MatchesGroup(t, p, eco) ==
    p \in t /\ \E ext \in ExtensionsOf(eco) : HasSuffix(p[Len(p)], ext)

\* no marker of the ecosystem, and its extensions only below skipped directories
OnlyInSkippedDirs(t, eco) ==
    /\ \A mk \in MarkersOf(eco) : <<mk>> \notin t
    /\ \E f \in t : MatchesGroup(t, f, eco)
    /\ \A f \in VisibleFiles(t) : ~MatchesGroup(t, f, eco)

IsOpen(e) == e.cmd \in {"tmux new-window", "tmux send-keys", "editor"}

\* using_tmux of the configuration file, true when the file does not set it
ConfiguredUsingTmux ==
    IF cfgFile.kind = "valid" /\ cfgFile.usingTmux # "unset"
    THEN cfgFile.usingTmux = "true" ELSE TRUE

EffectiveUsingTmux ==
    CASE bin.tmuxFlag = "true" -> TRUE
      [] bin.tmuxFlag = "false" -> FALSE
      [] OTHER -> ConfiguredUsingTmux

C27_EditorAfterWorktree ==
    /\ \A i \in DOMAIN log :
          /\ IsOpen(log[i]) =>
                \E j \in 1..(i - 1) : log[j].cmd = "git worktree add" /\ log[j].ok
          /\ (log[i].cmd = "git worktree add" /\ ~log[i].ok) =>
                i = Len(log) /\ pc = "done" /\ ret = "error creating worktree"
          /\ log[i].cmd \in {"tmux new-window", "tmux send-keys"} =>
                EffectiveUsingTmux /\ bin.TMUX # ""
          /\ log[i].cmd = "editor" => ~(EffectiveUsingTmux /\ bin.TMUX # "")
    /\ (pc = "done" /\ \E j \in DOMAIN log : log[j].cmd = "git worktree add" /\ log[j].ok)
          => \E i \in DOMAIN log : IsOpen(log[i])

\* inside tmux, without the flag and with using_tmux: false configured, the
\* editor was opened directly
C27_Witness ==
    /\ pc = "done" /\ ret = "nil"
    /\ bin.tmuxFlag = "unset" /\ bin.TMUX # "" /\ ~ConfiguredUsingTmux
    /\ log[Len(log)].cmd = "editor"

(***************************************************************************)
(* C28: the list detectLanguages returns holds each ecosystem at most      *)
(* once, never both javascript and typescript, and its members in the      *)
(* relative order go, javascript or typescript, python, java, rust; so in  *)
(* a scan with auto-detection no tool wrapper is invoked more than once.   *)
(***************************************************************************)
DetectionOrder == << {"go"}, {"javascript", "typescript"}, {"python"}, {"java"}, {"rust"} >>

\* the place of a name of the list in the detection order
PlaceOf(l) == CHOOSE k \in DOMAIN DetectionOrder : l \in DetectionOrder[k]

TimesInvoked(t) == Cardinality({ i \in DOMAIN log : log[i] = t })

C28_DetectedListDistinctOrdered ==
    (flags.language = "" /\ wrapper = "") =>
        /\ \A i \in DOMAIN languages :
              \E k \in DOMAIN DetectionOrder : languages[i] \in DetectionOrder[k]
        /\ \A k \in DOMAIN DetectionOrder :
              Cardinality({ i \in DOMAIN languages : languages[i] \in DetectionOrder[k] }) <= 1
        /\ \A i \in DOMAIN languages : \A j \in DOMAIN languages :
              PlaceOf(languages[i]) < PlaceOf(languages[j]) => i < j
        /\ \A t \in ToolSet : TimesInvoked(t) <= 1

\* an auto-detected scan of a go, javascript and rust directory has run
\* gitleaks and the eight wrappers of the three groups, each once
C28_Witness ==
    /\ pc = "done" /\ flags.language = "" /\ wrapper = ""
    /\ languages = <<"go", "javascript", "rust">>
    /\ Len(log) = 9
    /\ \A i \in DOMAIN log : TimesInvoked(log[i]) = 1

(***************************************************************************)
(* C29: when runPreCommitCleanup has ended after five pre-commit runs that *)
(* each exited non-zero, with every AI fix and every git add succeeding,   *)
(* the fixer and git add ran five times each and pre-commit five times:    *)
(* the fifth fix was applied and staged, no pre-commit run follows it, and *)
(* the cleanup returned its terminal failure.  In one invocation           *)
(* pre-commit never runs more than 5 times and the fixer never more than   *)
(* 5 times.                                                                *)
(***************************************************************************)
RunsOf(cmd) == { i \in DOMAIN log : log[i].cmd = cmd }

EveryFixAndAddSucceeded ==
    \A i \in RunsOf("claude fix") \cup RunsOf("git add .") : log[i].ok

C29_FifthFixUnchecked ==
    /\ Cardinality(RunsOf("pre-commit run --all-files")) <= 5
    /\ Cardinality(RunsOf("claude fix")) <= 5
    /\ (/\ pc = "done"
        /\ Cardinality({ i \in RunsOf("pre-commit run --all-files") : ~log[i].ok }) = 5
        /\ EveryFixAndAddSucceeded) =>
          /\ Cardinality(RunsOf("pre-commit run --all-files")) = 5
          /\ Cardinality(RunsOf("claude fix")) = 5
          /\ Cardinality(RunsOf("git add .")) = 5
          /\ \E i \in RunsOf("claude fix") : \E j \in RunsOf("git add .") :
                /\ i < j /\ j = Len(log)
                /\ \A k \in RunsOf("pre-commit run --all-files") : k < i
          /\ cleanupErr = "failed to fix pre-commit issues after 5 attempts"
          /\ ret = "pre-commit cleanup failed"

\* the fifth fix was staged and the cleanup gave up without another run
C29_Witness ==
    /\ pc = "done" /\ EveryFixAndAddSucceeded
    /\ Cardinality(RunsOf("claude fix")) = 5
    /\ log[Len(log)].cmd = "git add ." /\ log[Len(log)].ok
    /\ log[Len(log) - 1].cmd = "claude fix"
    /\ ret = "pre-commit cleanup failed"

====
